---- MODULE Spec2Model ----
(***************************************************************************)
(* Model of in100tiva/game1: the Player animation selector (Player.js),    *)
(* the procedural sheet generators (SpriteGenerator.js and GameScene) and  *)
(* the clip tables they share.                                             *)
(***************************************************************************)
EXTENDS Integers, Sequences, FiniteSets, TLC

VARIABLES
    currentState,      \* Player.currentState
    currentDirection,  \* Player.currentDirection
    isMoving,          \* Player.isMoving (the field, not the local of updateAnimation)
    velocity,          \* sprite.body.velocity: signs of x and y, and the vector's length
    anims,             \* scene.anims: the registered animations, key -> definition
    currentAnim,       \* key most recently passed to sprite.play
    played,            \* keys passed to sprite.play by the last operation, in order
    input,             \* flags of the last update tick (NoInput before the first)
    prevInput,         \* flags of the tick before the last one
    fromState,         \* currentState on entry to the last tick
    fromDirection,     \* currentDirection on entry to the last tick
    players,           \* number of Players constructed on the scene so far
    created,           \* keys passed to scene.anims.create so far, in order
    generator,         \* who generates the sheet: SpriteGenerator or GameScene
    genPc,             \* position of the running sheet generation
    genRow,            \* forEach index of the running generation
    genFrame,          \* frame counter of the inner for loop
    canvasWidth,       \* canvas.width of the sheet being generated
    canvasHeight,      \* canvas.height of the sheet being generated
    calls,             \* drawCharacter calls issued on the canvas so far, in order
    sheetGenerator,    \* who generated the sheet finished before the running generation
    sheetCalls,        \* the drawCharacter calls that sheet was drawn with, in order
    sheetCtx,          \* 2d context of the canvas being generated: fillStyle and the fills of the last call
    fills,             \* fills[i]: what call i of the running generation painted, in order
    sheetFills,        \* the fills of the sheet finished before the running generation, call by call
    ctx,               \* a caller's own context drawCharacter is called on: fillStyle and the fills of the last call
    dcArgs,            \* arguments of the last drawCharacter call (NoCall before the first)
    dcLegs,            \* legPositions computed by the last drawCharacter call
    dcThrown,          \* whether the last drawCharacter call threw
    defaultConfig,     \* the object DEFAULT_ANIMATION_CONFIG of the loaded page
    config,            \* SpriteConfig.config
    aliased,           \* config.animations is the array DEFAULT_ANIMATION_CONFIG.animations
    spritesheetData,   \* SpriteConfig.spritesheetData
    localStorage,      \* items spritesheet_config and spritesheet_image
    storageMode,       \* ok, full (setItem throws) or denied (every access throws)
    lastOp,            \* the last SpriteConfig operation and how it ended
    image,             \* SpriteEditor.image is set (an image is loaded)
    imagePending,      \* the saved spritesheet is loading: its img.onload is due
    hung,              \* the page is inside a loop of renderGrid() that does not end
    previewAction,     \* SpriteEditor.previewAction
    previewDirection,  \* SpriteEditor.previewDirection
    previewFrame,      \* SpriteEditor.previewFrame
    zoom,              \* SpriteEditor.zoom
    frameInputs,       \* values of the #frame-width and #frame-height inputs
    lastRender,        \* what renderPreviewFrame did in the step just taken (NoRender: it did not run)
    status,            \* type of the last showStatus message
    saveClicked,       \* the step just taken was a click on #save-config
    inputs,            \* the rows of inputs of the animation list, in document order
    previewFps,        \* SpriteEditor.previewFps
    previewInterval,   \* SpriteEditor.previewInterval: the id setInterval returned
    timers,            \* the interval timers of the page that are active
    nextTimerId        \* the id the page's next setInterval returns

playerVars == <<currentState, currentDirection, isMoving, velocity, anims, currentAnim,
                played, input, prevInput, fromState, fromDirection, players, created>>
genVars    == <<generator, genPc, genRow, genFrame, canvasWidth, canvasHeight, calls,
                sheetGenerator, sheetCalls, sheetCtx, fills, sheetFills>>
drawVars   == <<ctx, dcArgs, dcLegs, dcThrown>>
configVars == <<defaultConfig, config, aliased, spritesheetData, localStorage,
                storageMode, lastOp>>
timerVars  == <<previewFps, previewInterval, timers, nextTimerId>>
editorVars == <<image, imagePending, hung, zoom, frameInputs, previewAction, previewDirection,
                previewFrame, lastRender, status, saveClicked, inputs, timerVars>>
vars       == <<playerVars, genVars, drawVars, configVars, editorVars>>

\* what each component leaves alone
notPlayerVars == <<genVars, drawVars, configVars, editorVars>>
notGenVars    == <<playerVars, drawVars, configVars, editorVars>>
notDrawVars   == <<playerVars, genVars, configVars, editorVars>>
notConfigVars == <<playerVars, genVars, drawVars, editorVars>>
notEditorVars == <<playerVars, genVars, drawVars>>

-----------------------------------------------------------------------------
(* Bounds *)

\* largest frame index passed to drawCharacter (the 6-frame clips end at 5)
MaxDrawFrame == 7

\* largest number of Players constructed on one scene (the first and
\* MaxPlayers - 1 scene reloads)
MaxPlayers == 3

\* largest timer id handed out on one page load: the timer of init() and
\* MaxTimerId - 1 restarts by the FPS slider
MaxTimerId == 2

-----------------------------------------------------------------------------
(* Enumerations and clip tables *)

Actions    == {"idle", "walk", "run"}
Directions == {"down", "left", "right", "up"}

\* const directions = ['down', 'left', 'right', 'up'] of the three generate* loops
directions == <<"down", "left", "right", "up">>

\* SpriteGenerator constructor fields
frameWidth   == 32
frameHeight  == 32
framesPerRow == 6
totalRows    == 12

Clip(a, d, r, s, n, fps) ==
    [action |-> a, direction |-> d, row |-> r, startFrame |-> s,
     frameCount |-> n, frameRate |-> fps]

\* DEFAULT_ANIMATION_CONFIG.animations
DEFAULT_ANIMATION_CONFIG ==
    << Clip("idle", "down",  0,  0, 4, 4),
       Clip("idle", "left",  1,  0, 4, 4),
       Clip("idle", "right", 2,  0, 4, 4),
       Clip("idle", "up",    3,  0, 4, 4),
       Clip("walk", "down",  4,  0, 6, 8),
       Clip("walk", "left",  5,  0, 6, 8),
       Clip("walk", "right", 6,  0, 6, 8),
       Clip("walk", "up",    7,  0, 6, 8),
       Clip("run",  "down",  8,  0, 6, 12),
       Clip("run",  "left",  9,  0, 6, 12),
       Clip("run",  "right", 10, 0, 6, 12),
       Clip("run",  "up",    11, 0, 6, 12) >>

Anim(k, s, e, fps) == [key |-> k, start |-> s, end |-> e, frameRate |-> fps]

\* createAnimations with walk-down ending one frame into the next row
createAnimationsWalkOverrun ==
    << Anim("idle-down",  0,  3,  4),
       Anim("idle-left",  6,  9,  4),
       Anim("idle-right", 12, 15, 4),
       Anim("idle-up",    18, 21, 4),
       Anim("walk-down",  24, 30, 8),
       Anim("walk-left",  30, 35, 8),
       Anim("walk-right", 36, 41, 8),
       Anim("walk-up",    42, 47, 8),
       Anim("run-down",   48, 53, 12),
       Anim("run-left",   54, 59, 12),
       Anim("run-right",  60, 65, 12),
       Anim("run-up",     66, 71, 12) >>

\* the twelve createAnimation calls of Player.createAnimations, in order
createAnimations ==
    << Anim("idle-down",  0,  3,  4),
       Anim("idle-left",  6,  9,  4),
       Anim("idle-right", 12, 15, 4),
       Anim("idle-up",    18, 21, 4),
       Anim("walk-down",  24, 29, 8),
       Anim("walk-left",  30, 35, 8),
       Anim("walk-right", 36, 41, 8),
       Anim("walk-up",    42, 47, 8),
       Anim("run-down",   48, 53, 12),
       Anim("run-left",   54, 59, 12),
       Anim("run-right",  60, 65, 12),
       Anim("run-up",     66, 71, 12) >>

SceneAnim(r, d, a, n) == [row |-> r, direction |-> d, action |-> a, frames |-> n]

\* const animations of GameScene.generateAllFrames
sceneAnimations ==
    << SceneAnim(0,  "down",  "idle", 4),
       SceneAnim(1,  "left",  "idle", 4),
       SceneAnim(2,  "right", "idle", 4),
       SceneAnim(3,  "up",    "idle", 4),
       SceneAnim(4,  "down",  "walk", 6),
       SceneAnim(5,  "left",  "walk", 6),
       SceneAnim(6,  "right", "walk", 6),
       SceneAnim(7,  "up",    "walk", 6),
       SceneAnim(8,  "down",  "run",  6),
       SceneAnim(9,  "left",  "run",  6),
       SceneAnim(10, "right", "run",  6),
       SceneAnim(11, "up",    "run",  6) >>

-----------------------------------------------------------------------------
(* Player: the animation selector *)

NoInput == [left |-> FALSE, right |-> FALSE, up |-> FALSE, down |-> FALSE,
            isRunning |-> FALSE, none |-> TRUE]

\* what update() reads from the keyboard on one tick: the 32 combinations
Inputs == [left : BOOLEAN, right : BOOLEAN, up : BOOLEAN, down : BOOLEAN,
           isRunning : BOOLEAN, none : {FALSE}]

\* this.walkSpeed, this.runSpeed (pixels per second)
walkSpeed == 100
runSpeed  == 180

\* const speed = isRunning ? this.runSpeed : this.walkSpeed
speedOf(isRunning) == IF isRunning THEN runSpeed ELSE walkSpeed

\* a plausible slip: right tested before left in the velocity
rawVelocityXRightFirst(left, right, speed) ==
    IF right THEN speed ELSE IF left THEN -speed ELSE 0

\* body.setVelocity(0), then if (left) setVelocityX(-speed) else if (right) ...
rawVelocityX(left, right, speed) ==
    IF left THEN -speed ELSE IF right THEN speed ELSE 0

\* if (up) setVelocityY(-speed) else if (down) setVelocityY(speed)
rawVelocityY(up, down, speed) ==
    IF up THEN -speed ELSE IF down THEN speed ELSE 0

Sign(v) == IF v < 0 THEN -1 ELSE IF v > 0 THEN 1 ELSE 0

\* body.velocity.normalize().scale(speed): the direction is kept and the length
\* becomes speed; the zero vector stays zero. The components set above are 0 or
\* +-speed, so the direction is given by their signs.
normalizeScale(vx, vy, speed) ==
    [x |-> Sign(vx), y |-> Sign(vy),
     length |-> IF vx = 0 /\ vy = 0 THEN 0 ELSE speed]

\* const isMoving = left || right || up || down
movingOf(left, right, up, down) == left \/ right \/ up \/ down

\* a plausible slip: right tested before left
newDirectionRightFirst(cur, left, right, up, down) ==
    IF movingOf(left, right, up, down)
    THEN IF right THEN "right"
         ELSE IF left THEN "left"
         ELSE IF up THEN "up"
         ELSE IF down THEN "down"
         ELSE cur
    ELSE cur

\* a plausible slip: the up branch is missing
newDirectionNoUp(cur, left, right, up, down) ==
    IF movingOf(left, right, up, down)
    THEN IF left THEN "left"
         ELSE IF right THEN "right"
         ELSE IF down THEN "down"
         ELSE cur
    ELSE cur

\* let newDirection = this.currentDirection; if (isMoving) { if (left) ... }
newDirectionOf(cur, left, right, up, down) ==
    IF movingOf(left, right, up, down)
    THEN IF left THEN "left"
         ELSE IF right THEN "right"
         ELSE IF up THEN "up"
         ELSE IF down THEN "down"
         ELSE cur
    ELSE cur

\* a plausible slip: the running modifier decides even with no direction held
newStateRunWhenShift(left, right, up, down, isRunning) ==
    IF isRunning THEN "run"
    ELSE IF movingOf(left, right, up, down) THEN "walk" ELSE "idle"

\* a plausible slip: the ternary is the wrong way round
newStateSwapped(left, right, up, down, isRunning) ==
    IF movingOf(left, right, up, down)
    THEN IF isRunning THEN "walk" ELSE "run"
    ELSE "idle"

\* let newState = 'idle'; if (isMoving) newState = isRunning ? 'run' : 'walk'
newStateOf(left, right, up, down, isRunning) ==
    IF movingOf(left, right, up, down)
    THEN IF isRunning THEN "run" ELSE "walk"
    ELSE "idle"

\* a plausible slip: the clip is replayed on every tick
animationChangedAlways(newState, newDirection, curState, curDirection) == TRUE

\* a plausible slip: && in place of ||
animationChangedBoth(newState, newDirection, curState, curDirection) ==
    newState # curState /\ newDirection # curDirection

\* newState !== this.currentState || newDirection !== this.currentDirection
animationChanged(newState, newDirection, curState, curDirection) ==
    newState # curState \/ newDirection # curDirection

\* a plausible slip: the key is joined with an underscore
animationKeyUnderscore(newState, newDirection) == newState \o "_" \o newDirection

\* a plausible slip: the key is built direction first
animationKeyDirectionFirst(newState, newDirection) == newDirection \o "-" \o newState

\* `${newState}-${newDirection}`
animationKey(newState, newDirection) == newState \o "-" \o newDirection

\* scene.anims after createAnimations ran on an empty registry
\* (createAnimation skips a key that exists; the twelve keys are distinct)
registeredAnims ==
    [k \in {createAnimations[i].key : i \in 1..Len(createAnimations)} |->
        LET i == CHOOSE j \in 1..Len(createAnimations) :
                    /\ createAnimations[j].key = k
                    /\ \A h \in 1..(j - 1) : createAnimations[h].key # k
        IN  [start     |-> createAnimations[i].start,
             end       |-> createAnimations[i].end,
             frameRate |-> createAnimations[i].frameRate]]

\* the state new Player(scene, x, y) leaves
PlayerInit ==
    /\ currentState = "idle"
    /\ currentDirection = "down"
    /\ isMoving = FALSE
    /\ velocity = [x |-> 0, y |-> 0, length |-> 0]
    /\ anims = registeredAnims
    /\ currentAnim = "idle-down"
    /\ played = <<"idle-down">>
    /\ input = NoInput
    /\ prevInput = NoInput
    /\ fromState = "idle"
    /\ fromDirection = "down"
    /\ players = 1
    /\ created = [i \in 1..Len(createAnimations) |-> createAnimations[i].key]

\* a plausible slip: createAnimation without the exists check
createAnimationNoCheck(scene, a) ==
    [anims   |-> [k \in DOMAIN scene.anims \cup {a.key} |->
                     IF k = a.key
                     THEN [start |-> a.start, end |-> a.end, frameRate |-> a.frameRate]
                     ELSE scene.anims[k]],
     created |-> Append(scene.created, a.key)]

\* createAnimation(key, startFrame, endFrame, config) on the scene's registry:
\* nothing when the key exists, scene.anims.create otherwise
createAnimation(scene, a) ==
    IF a.key \in DOMAIN scene.anims THEN scene
    ELSE [anims   |-> [k \in DOMAIN scene.anims \cup {a.key} |->
                          IF k = a.key
                          THEN [start |-> a.start, end |-> a.end,
                                frameRate |-> a.frameRate]
                          ELSE scene.anims[k]],
          created |-> Append(scene.created, a.key)]

\* createAnimations() from its i-th createAnimation call on
RECURSIVE createAnimationsFrom(_, _)
createAnimationsFrom(scene, i) ==
    IF i > Len(createAnimations) THEN scene
    ELSE createAnimationsFrom(createAnimation(scene, createAnimations[i]), i + 1)

\* new Player(scene, x, y) on a scene that had Players before (the scene was
\* reloaded): the fields are set, createAnimations runs on the registry as it
\* is, and 'idle-down' is played
NewPlayer ==
    /\ players < MaxPlayers
    /\ players' = players + 1
    /\ LET scene == createAnimationsFrom([anims |-> anims, created |-> created], 1)
       IN  anims' = scene.anims /\ created' = scene.created
    /\ currentState' = "idle"
    /\ currentDirection' = "down"
    /\ isMoving' = FALSE
    /\ velocity' = [x |-> 0, y |-> 0, length |-> 0]
    /\ currentAnim' = "idle-down"
    /\ played' = <<"idle-down">>
    /\ input' = NoInput
    /\ prevInput' = NoInput
    /\ fromState' = "idle"
    /\ fromDirection' = "down"

\* Player.updateAnimation from the stored (curState, curDirection): the pair it
\* leaves stored and the keys it passes to sprite.play
updateAnimation(curState, curDirection, left, right, up, down, isRunning) ==
    LET newDirection == newDirectionOf(curDirection, left, right, up, down)
        newState     == newStateOf(left, right, up, down, isRunning)
    IN  IF animationChanged(newState, newDirection, curState, curDirection)
        THEN [state |-> newState, direction |-> newDirection,
              play |-> <<animationKey(newState, newDirection)>>]
        ELSE [state |-> curState, direction |-> curDirection, play |-> <<>>]

\* Player.update(cursors, wasd, shiftKey) with the keys in state in: the velocity
\* is set from the flags and normalised, then the flags go to updateAnimation
Update(in) ==
    LET speed == speedOf(in.isRunning)
        r == updateAnimation(currentState, currentDirection,
                             in.left, in.right, in.up, in.down, in.isRunning)
    IN  /\ velocity' = normalizeScale(rawVelocityX(in.left, in.right, speed),
                                      rawVelocityY(in.up, in.down, speed), speed)
        /\ currentState' = r.state
        /\ currentDirection' = r.direction
        /\ played' = r.play
        /\ currentAnim' = IF r.play = <<>> THEN currentAnim ELSE r.play[Len(r.play)]
        /\ input' = in
        /\ prevInput' = input
        /\ fromState' = currentState
        /\ fromDirection' = currentDirection
        /\ UNCHANGED <<isMoving, anims, players, created>>

Tick == \E in \in Inputs : Update(in) /\ UNCHANGED notPlayerVars

-----------------------------------------------------------------------------
(* The sheet generators *)

\* a plausible slip: the raised frames are the even ones
breathOffsetEven(frame) == IF frame = 0 \/ frame = 2 THEN -1 ELSE 0

\* const breathOffset = (frame === 1 || frame === 3) ? -1 : 0
breathOffset(frame) == IF frame = 1 \/ frame = 3 THEN -1 ELSE 0

\* generateWalkAnimations: const bounceOffset = (frame === 0 || frame === 3) ? 0 : -1
walkBounceOffset(frame) == IF frame = 0 \/ frame = 3 THEN 0 ELSE -1

\* generateRunAnimations: const bounceOffset = (frame === 0 || frame === 3) ? 0 : -2
runBounceOffset(frame) == IF frame = 0 \/ frame = 3 THEN 0 ELSE -2

\* the offset each of the three generate*Animations loops computes for a frame
generatorOffsetY(action, frame) ==
    CASE action = "idle" -> breathOffset(frame)
      [] action = "walk" -> walkBounceOffset(frame)
      [] action = "run"  -> runBounceOffset(frame)

\* a plausible slip: the scene's run frames bounce like its walk frames
sceneOffsetYRunAsWalk(action, frame) ==
    IF action = "idle" THEN (IF frame = 1 \/ frame = 3 THEN -1 ELSE 0)
    ELSE IF action = "walk" THEN (IF frame = 0 \/ frame = 3 THEN 0 ELSE -1)
    ELSE IF action = "run" THEN (IF frame = 0 \/ frame = 3 THEN 0 ELSE -1)
    ELSE 0

\* generateAllFrames: let offsetY = 0; if (anim.action === 'idle') ... else if ...
sceneOffsetY(action, frame) ==
    IF action = "idle" THEN (IF frame = 1 \/ frame = 3 THEN -1 ELSE 0)
    ELSE IF action = "walk" THEN (IF frame = 0 \/ frame = 3 THEN 0 ELSE -1)
    ELSE IF action = "run" THEN (IF frame = 0 \/ frame = 3 THEN 0 ELSE -2)
    ELSE 0

\* the arguments of one drawCharacter(ctx, x, y, direction, action, frame, offsetY)
DrawCall(x, y, direction, action, frame, offsetY) ==
    [x |-> x, y |-> y, direction |-> direction, action |-> action,
     frame |-> frame, offsetY |-> offsetY]

\* frames drawn per direction by the idle loop (frame < 4) and by the walk and
\* run loops (frame < 6)
idleLoopFrames == 4
walkLoopFrames == 6
runLoopFrames  == 6

\* first sheet row of the walk block (const rowIndex = 4 + dirIndex) and of the
\* run block (const rowIndex = 8 + dirIndex)
walkFirstRow == 4
runFirstRow  == 8

\* rowIndex of the three generate*Animations loops
loopRowIndex(action, dirIndex) ==
    CASE action = "idle" -> dirIndex
      [] action = "walk" -> walkFirstRow + dirIndex
      [] action = "run"  -> runFirstRow + dirIndex

\* a plausible slip: the loops test frame <= bound
loopFramesInclusive(action) ==
    CASE action = "idle" -> idleLoopFrames + 1
      [] action = "walk" -> walkLoopFrames + 1
      [] action = "run"  -> runLoopFrames + 1

\* a plausible slip: one frame too many in the idle loop
loopFramesIdleSix(action) ==
    CASE action = "idle" -> walkLoopFrames
      [] action = "walk" -> walkLoopFrames
      [] action = "run"  -> runLoopFrames

\* bound of the inner for loop of the three generate*Animations methods
loopFrames(action) ==
    CASE action = "idle" -> idleLoopFrames
      [] action = "walk" -> walkLoopFrames
      [] action = "run"  -> runLoopFrames

\* no sheet generation has started
\* the rule a generator applies to (action, frame)
offsetRule(who, action, frame) ==
    IF who = "SpriteGenerator" THEN generatorOffsetY(action, frame)
    ELSE sceneOffsetY(action, frame)

-----------------------------------------------------------------------------
(* SpriteGenerator.drawCharacter: one frame as an ordered list of fills *)

\* this.colors of the SpriteGenerator constructor
colors ==
    [skin |-> "#f4c99b", skinShadow |-> "#d4a574", hair |-> "#4a3728",
     hairHighlight |-> "#5c4333", shirt |-> "#3498db", shirtShadow |-> "#2980b9",
     pants |-> "#2c3e50", pantsShadow |-> "#1a252f", shoes |-> "#8b4513",
     outline |-> "#2c2c2c", eyes |-> "#2c2c2c"]

\* Coordinates handed to drawPixelRect may be fractional (run legs, arm swing):
\* they are carried in thousandths of a pixel, px(v) being the whole pixel v.
px(v) == v * 1000

\* a drawing method starts: the fills that follow belong to it
enter(c, method) == [c EXCEPT !.layer = method]

\* drawPixelRect with the two statements swapped: the rectangle is filled in
\* the style the context has, the colour is assigned afterwards
drawPixelRectStyleAfter(c, x, y, width, height, color) ==
    [c EXCEPT !.rects = Append(@, [layer |-> c.layer, x |-> x \div 1000,
                                   y |-> y \div 1000, width |-> width,
                                   height |-> height, fill |-> c.fillStyle]),
              !.fillStyle = color]

\* ctx.fillStyle = color; ctx.fillRect(Math.floor(x), Math.floor(y), width, height)
drawPixelRect(c, x, y, width, height, color) ==
    LET styled == [c EXCEPT !.fillStyle = color]
    IN  [styled EXCEPT !.rects = Append(@, [layer |-> styled.layer, x |-> x \div 1000,
                                            y |-> y \div 1000, width |-> width,
                                            height |-> height,
                                            fill |-> styled.fillStyle])]

\* ctx.fillStyle = color; ctx.fillRect(Math.floor(x), Math.floor(y), 1, 1)
drawPixel(c, x, y, color) ==
    LET styled == [c EXCEPT !.fillStyle = color]
    IN  [styled EXCEPT !.rects = Append(@, [layer |-> styled.layer, x |-> x \div 1000,
                                            y |-> y \div 1000, width |-> 1,
                                            height |-> 1, fill |-> styled.fillStyle])]

LegPositions(lx, rx, ly, ry) == [leftX |-> lx, rightX |-> rx, leftY |-> ly, rightY |-> ry]

\* const walkCycle of calculateLegPositions, in pixels
walkCycle ==
    << LegPositions(-2, 2,  0,  0),
       LegPositions(-3, 3, -1,  1),
       LegPositions(-4, 4,  0,  0),
       LegPositions(-2, 2,  0,  0),
       LegPositions(-1, 1,  1, -1),
       LegPositions(-4, 4,  0,  0) >>

\* a stance multiplied by mx (X) and my (Y), both in thousandths
scaled(positions, mx, my) ==
    LegPositions(positions.leftX * mx, positions.rightX * mx,
                 positions.leftY * my, positions.rightY * my)

\* calculateLegPositions(action, frame), in thousandths of a pixel;
\* walkCycle[frame] is undefined outside 0..5 and `|| walkCycle[0]` takes over
calculateLegPositions(action, frame) ==
    IF action = "idle" THEN scaled(LegPositions(-2, 2, 0, 0), 1000, 1000)
    ELSE LET positions == IF frame \in 0..(Len(walkCycle) - 1)
                          THEN walkCycle[frame + 1]
                          ELSE walkCycle[1]
         IN  IF action = "run" THEN scaled(positions, 1300, 1500)
             ELSE scaled(positions, 1000, 1000)

\* drawLegs(ctx, centerX, baseY, direction, positions); legHeight = 8
drawLegs(c, centerX, baseY, direction, positions) ==
    LET c0 == enter(c, "drawLegs")
        frontLegX == IF direction = "left" THEN positions.leftX ELSE positions.rightX
        backLegX  == IF direction = "left" THEN positions.rightX ELSE positions.leftX
    IN  IF direction \in {"left", "right"}
        THEN LET c1 == drawPixelRect(c0, px(centerX) + backLegX - px(2),
                                     px(baseY - 8 - 2), 3, 8, colors.pantsShadow)
                 c2 == drawPixelRect(c1, px(centerX) + backLegX - px(2),
                                     px(baseY - 3), 3, 3, colors.shoes)
                 c3 == drawPixelRect(c2, px(centerX) + frontLegX - px(2),
                                     px(baseY - 8), 3, 8, colors.pants)
             IN  drawPixelRect(c3, px(centerX) + frontLegX - px(2),
                               px(baseY - 2), 3, 2, colors.shoes)
        ELSE LET c1 == drawPixelRect(c0, px(centerX - 5),
                                     px(baseY - 8) + positions.leftY, 4, 8, colors.pants)
                 c2 == drawPixelRect(c1, px(centerX - 5),
                                     px(baseY - 2) + positions.leftY, 4, 2, colors.shoes)
                 c3 == drawPixelRect(c2, px(centerX + 1),
                                     px(baseY - 8) + positions.rightY, 4, 8, colors.pants)
             IN  drawPixelRect(c3, px(centerX + 1),
                               px(baseY - 2) + positions.rightY, 4, 2, colors.shoes)

\* drawBody(ctx, centerX, baseY, direction); bodyTop = baseY - 18
drawBody(c, centerX, baseY, direction) ==
    LET c0 == enter(c, "drawBody")
        bodyTop == baseY - 18
        c1 == drawPixelRect(c0, px(centerX - 5), px(bodyTop), 10, 10, colors.shirt)
    IN  IF direction = "left"
        THEN drawPixelRect(c1, px(centerX + 2), px(bodyTop), 3, 10, colors.shirtShadow)
        ELSE IF direction = "right"
        THEN drawPixelRect(c1, px(centerX - 5), px(bodyTop), 3, 10, colors.shirtShadow)
        ELSE drawPixelRect(c1, px(centerX - 5), px(bodyTop + 7), 10, 3, colors.shirtShadow)

\* Math.sin((frame / 6) * Math.PI * 2) in thousandths, by frame mod 6.  The
\* doubles the code gets for a whole number of half turns are not 0: what is
\* left of them is armSwingResidue
sinSixths == <<0, 866, 866, 0, -866, -866>>

\* armSwing of drawArms, in thousandths of a pixel
armSwing(action, frame) ==
    IF action \in {"walk", "run"}
    THEN sinSixths[(frame % 6) + 1] * (IF action = "run" THEN 3 ELSE 2)
    ELSE 0

\* The unit of the four definitions below and of armSwingResidue is
\* 2^-54 / 10000 (5.55e-21).  halfGapBelowOne is 2^-54, half the gap between
\* 1 and the double below it
halfGapBelowOne == 10000

\* 2^-51, the gap between Math.PI and the double next to it
gapAtPi == 80000

\* the low 14 bits of the 53-bit significand of Math.PI, 7074237752028440
piLowBits == 11544

\* the power of two p with p <= a < 2p, for a whole number a >= 1
binade(a) == CHOOSE p \in {2^e : e \in 0..16} : p <= a /\ a < 2 * p

\* half the gap between the whole number n (not 0) and the double next below
\* it: the doubles are twice as dense below a power of two
halfGapBelow(n) ==
    IF n > 0
    THEN (IF n = binade(n) THEN 1 ELSE 2) * binade(n) * halfGapBelowOne
    ELSE 2 * binade(-n) * halfGapBelowOne

\* the number of low bits the product (frame / 6) * Math.PI * 2 = k * Math.PI
\* drops when it is rounded to a double, 1 <= k <= 10430: the product lies in
\* [2^(d+1), 2^(d+2)) and Math.PI in [2, 4)
bitsLost(k) ==
    CHOOSE d \in 0..13 : 2^(d + 1) * 10000 <= k * 31416 /\ k * 31416 < 2^(d + 2) * 10000

\* the rounded product minus the exact one, in gaps of Math.PI: the dropped
\* bits are rounded to nearest, a tie to the even significand
productError(k) ==
    LET d    == bitsLost(k)
        low  == (k * (piLowBits % 2^d)) % 2^d
        odd  == ((k * (piLowBits % 2^(d + 1))) % 2^(d + 1)) \div 2^d
        half == 2^d \div 2
    IN  IF d > 0 /\ (low > half \/ (low = half /\ odd = 1)) THEN 2^d - low ELSE -low

\* k * (pi - Math.PI); pi - Math.PI is 1.2246e-16, 22061.2755 units
piShortfall(k) == k * 22061 + (k * 2755) \div 10000

\* Math.sin(k * Math.PI) for a whole number k, -10430 <= k <= 10430: the
\* distance of the double k * Math.PI from k * pi, with the sign of cos(k * pi);
\* 1.2e-16 at k = 1, -2.4e-16 at k = 2, 4.9e-15 at k = 11, -2.0e-15 at k = 13
sinHalfTurns(k) ==
    IF k = 0
    THEN 0
    ELSE LET a   == IF k < 0 THEN -k ELSE k
             eta == productError(a) * gapAtPi - piShortfall(a)
             s   == IF a % 2 = 0 THEN eta ELSE -eta
         IN  IF k < 0 THEN -s ELSE s

\* armSwing when frame / 6 is a whole number k of half turns: Math.sin gives
\* sinHalfTurns(k), not 0, and swingAmount multiplies it
armSwingResidue(action, frame) ==
    IF action \in {"walk", "run"} /\ frame % 3 = 0
    THEN sinHalfTurns(frame \div 3) * (IF action = "run" THEN 3 ELSE 2)
    ELSE 0

\* n + armSwing (sign 1) or n - armSwing (sign -1) for a whole number n, as
\* the double the code computes, in thousandths.  A negative residue that the
\* rounding of the sum does not absorb leaves the sum below n, one thousandth
\* below px(n) here, and Math.floor takes it to n - 1
armSum(n, sign, action, frame) ==
    LET residue == sign * armSwingResidue(action, frame)
    IN  IF residue < 0 /\ (n = 0 \/ -residue > halfGapBelow(n))
        THEN px(n) - 1
        ELSE px(n) + sign * armSwing(action, frame)

\* drawArms(ctx, centerX, baseY, direction, action, frame); armY = baseY - 16
drawArms(c, centerX, baseY, direction, action, frame) ==
    LET c0 == enter(c, "drawArms")
        armY == baseY - 16
    IN  IF direction = "left"
        THEN LET c1 == drawPixelRect(c0, px(centerX + 4), armSum(armY, 1, action, frame),
                                     3, 6, colors.shirt)
             IN  drawPixelRect(c1, px(centerX + 4), armSum(armY + 5, 1, action, frame),
                               3, 2, colors.skin)
        ELSE IF direction = "right"
        THEN LET c1 == drawPixelRect(c0, px(centerX - 7), armSum(armY, -1, action, frame),
                                     3, 6, colors.shirt)
             IN  drawPixelRect(c1, px(centerX - 7), armSum(armY + 5, -1, action, frame),
                               3, 2, colors.skin)
        ELSE c0

\* drawHead(ctx, centerX, baseY, direction); headTop = baseY - 26
drawHead(c, centerX, baseY, direction) ==
    LET c0 == enter(c, "drawHead")
        headTop == baseY - 26
        c1 == drawPixelRect(c0, px(centerX - 5), px(headTop + 1), 10, 7, colors.skin)
        c2 == drawPixelRect(c1, px(centerX - 4), px(headTop), 8, 1, colors.skin)
        c3 == drawPixelRect(c2, px(centerX - 4), px(headTop + 8), 8, 1, colors.skin)
    IN  IF direction = "left"
        THEN drawPixelRect(c3, px(centerX + 3), px(headTop + 1), 2, 7, colors.skinShadow)
        ELSE IF direction = "right"
        THEN drawPixelRect(c3, px(centerX - 5), px(headTop + 1), 2, 7, colors.skinShadow)
        ELSE c3

\* drawFace(ctx, centerX, baseY): the two eyes
drawFace(c, centerX, baseY) ==
    LET c0 == enter(c, "drawFace")
        headTop == baseY - 26
        c1 == drawPixel(c0, px(centerX - 3), px(headTop + 3), colors.eyes)
    IN  drawPixel(c1, px(centerX + 2), px(headTop + 3), colors.eyes)

\* drawFaceSide(ctx, centerX, baseY, direction): the one visible eye
drawFaceSide(c, centerX, baseY, direction) ==
    LET c0 == enter(c, "drawFaceSide")
        headTop == baseY - 26
        eyeX == IF direction = "left" THEN centerX - 3 ELSE centerX + 2
    IN  drawPixel(c0, px(eyeX), px(headTop + 3), colors.eyes)

\* drawHairFront(ctx, centerX, baseY)
drawHairFront(c, centerX, baseY) ==
    LET c0 == enter(c, "drawHairFront")
        headTop == baseY - 26
        c1 == drawPixelRect(c0, px(centerX - 5), px(headTop - 2), 10, 3, colors.hair)
        c2 == drawPixelRect(c1, px(centerX - 4), px(headTop - 3), 8, 1, colors.hair)
        c3 == drawPixelRect(c2, px(centerX - 4), px(headTop), 3, 2, colors.hair)
        c4 == drawPixelRect(c3, px(centerX + 1), px(headTop), 3, 2, colors.hair)
    IN  drawPixel(c4, px(centerX - 2), px(headTop - 2), colors.hairHighlight)

\* drawHairBack(ctx, centerX, baseY)
drawHairBack(c, centerX, baseY) ==
    LET c0 == enter(c, "drawHairBack")
        headTop == baseY - 26
        c1 == drawPixelRect(c0, px(centerX - 5), px(headTop - 2), 10, 10, colors.hair)
        c2 == drawPixelRect(c1, px(centerX - 4), px(headTop - 3), 8, 1, colors.hair)
    IN  drawPixel(c2, px(centerX), px(headTop - 1), colors.hairHighlight)

\* drawHairSide(ctx, centerX, baseY, direction)
drawHairSide(c, centerX, baseY, direction) ==
    LET c0 == enter(c, "drawHairSide")
        headTop == baseY - 26
        c1 == drawPixelRect(c0, px(centerX - 5), px(headTop - 2), 10, 3, colors.hair)
        c2 == drawPixelRect(c1, px(centerX - 4), px(headTop - 3), 8, 1, colors.hair)
        c3 == IF direction = "left"
              THEN drawPixelRect(c2, px(centerX + 3), px(headTop), 2, 5, colors.hair)
              ELSE drawPixelRect(c2, px(centerX - 5), px(headTop), 2, 5, colors.hair)
    IN  drawPixel(c3, px(centerX - 1), px(headTop - 2), colors.hairHighlight)

\* frames a clip of the action holds: the bounds of the three generate* loops
frameCountOf(action) == IF action = "idle" THEN 4 ELSE 6

\* drawCharacter and calculateLegPositions hold no range test and no throw:
\* indexing walkCycle outside 0..5 yields undefined, never an exception
drawCharacterThrows(action, frame) == FALSE

\* drawCharacter(ctx, x, y, direction, action, frame, offsetY): the context
\* after the frame's drawing methods ran on it, back to front
drawCharacter(c, x, y, direction, action, frame, offsetY) ==
    LET centerX == x + frameWidth \div 2
        baseY == y + frameHeight - 4 + offsetY
        legPositions == calculateLegPositions(action, frame)
        legs == drawLegs(c, centerX, baseY, direction, legPositions)
        body == drawBody(legs, centerX, baseY, direction)
    IN  IF direction = "up"
        THEN drawHairBack(drawHead(body, centerX, baseY, direction), centerX, baseY)
        ELSE IF direction = "down"
        THEN LET head == drawHead(body, centerX, baseY, direction)
                 face == drawFace(head, centerX, baseY)
             IN  drawHairFront(face, centerX, baseY)
        ELSE LET arms == drawArms(body, centerX, baseY, direction, action, frame)
                 head == drawHead(arms, centerX, baseY, direction)
                 face == drawFaceSide(head, centerX, baseY, direction)
             IN  drawHairSide(face, centerX, baseY, direction)

NoCall == [x |-> 0, y |-> 0, direction |-> "none", action |-> "none",
           frame |-> 0, offsetY |-> 0]

\* a 2d context as canvas.getContext('2d') returns it, or as an earlier
\* drawCharacter call left it (every call ends on a hairHighlight pixel)
Context(style) ==
    [fillStyle |-> style, entryStyle |-> style, layer |-> "none", rects |-> <<>>]

\* the context as a call finds it: fillStyle kept (and noted as entryStyle), the
\* log of fills started anew
onEntry(c) ==
    [c EXCEPT !.entryStyle = c.fillStyle, !.layer = "drawCharacter", !.rects = <<>>]

DrawIdle ==
    /\ ctx = Context("#000000")
    /\ dcArgs = NoCall
    /\ dcLegs = <<>>
    /\ dcThrown = FALSE

\* origins of the first and of the last cell of the sheet:
\* x = frame * frameWidth, y = rowIndex * frameHeight
CellOrigins == {<<0, 0>>, <<(framesPerRow - 1) * frameWidth, (totalRows - 1) * frameHeight>>}

\* the frame indices passed to drawCharacter: those of the clips with the
\* nearest ones outside them, and 33, eleven half turns of the arm swing, the
\* first frame whose product (frame / 6) * Math.PI * 2 is rounded
DrawFrames == ((-1)..MaxDrawFrame) \cup {33}

\* the offsets the generate* loops pass for an action
OffsetYs(action) == {generatorOffsetY(action, f) : f \in 0..(frameCountOf(action) - 1)}

\* one call generator.drawCharacter(ctx, x, y, direction, action, frame, offsetY)
\* on the caller's context
DrawCharacter(x, y, direction, action, frame, offsetY) ==
    /\ dcArgs' = DrawCall(x, y, direction, action, frame, offsetY)
    /\ IF drawCharacterThrows(action, frame)
       THEN /\ dcThrown' = TRUE
            /\ dcLegs' = <<>>
            /\ ctx' = onEntry(ctx)
       ELSE /\ dcThrown' = FALSE
            /\ dcLegs' = <<calculateLegPositions(action, frame)>>
            /\ ctx' = drawCharacter(onEntry(ctx), x, y, direction, action, frame, offsetY)

-----------------------------------------------------------------------------
(* The two sheet generations, frame by frame *)

GenInit ==
    /\ generator = "none"
    /\ genPc = "ready"
    /\ genRow = 0
    /\ genFrame = 0
    /\ canvasWidth = 0
    /\ canvasHeight = 0
    /\ calls = <<>>
    /\ sheetGenerator = "none"
    /\ sheetCalls = <<>>
    /\ sheetCtx = Context("#000000")
    /\ fills = <<>>
    /\ sheetFills = <<>>

\* a generation starts on a fresh canvas: the sheet finished before it, if any,
\* is what the caller of that generation was returned
KeepFinishedSheet ==
    IF genPc = "done"
    THEN sheetGenerator' = generator /\ sheetCalls' = calls /\ sheetFills' = fills
    ELSE UNCHANGED <<sheetGenerator, sheetCalls, sheetFills>>

\* SpriteGenerator.generateSpritesheet up to the first loop: a fresh canvas of
\* frameWidth * framesPerRow by frameHeight * totalRows, its context, cleared
GenerateSpritesheet ==
    /\ genPc \in {"ready", "done"}
    /\ generator' = "SpriteGenerator"
    /\ KeepFinishedSheet
    /\ canvasWidth' = frameWidth * framesPerRow
    /\ canvasHeight' = frameHeight * totalRows
    /\ sheetCtx' = Context("#000000")
    /\ calls' = <<>>
    /\ fills' = <<>>
    /\ genPc' = "idle"
    /\ genRow' = 0
    /\ genFrame' = 0

\* the call this.drawCharacter(ctx, x, y, ...) of a loop iteration: the call is
\* noted, it paints on the context of the sheet as the call before left it
DrawFrame(call) ==
    LET c == drawCharacter(onEntry(sheetCtx), call.x, call.y, call.direction,
                           call.action, call.frame, call.offsetY)
    IN  /\ calls' = Append(calls, call)
        /\ sheetCtx' = c
        /\ fills' = Append(fills, c.rects)

\* one iteration of the inner loop of generate<action>Animations, and the move to
\* the next frame, the next direction or the method that follows (nextPc)
LoopIteration(action, nextPc) ==
    /\ generator = "SpriteGenerator"
    /\ genPc = action
    /\ DrawFrame(DrawCall(genFrame * frameWidth,
                          loopRowIndex(action, genRow) * frameHeight,
                          directions[genRow + 1], action, genFrame,
                          generatorOffsetY(action, genFrame)))
    /\ IF genFrame + 1 < loopFrames(action)
       THEN genFrame' = genFrame + 1 /\ UNCHANGED <<genRow, genPc>>
       ELSE IF genRow + 1 < Len(directions)
       THEN genFrame' = 0 /\ genRow' = genRow + 1 /\ UNCHANGED genPc
       ELSE genFrame' = 0 /\ genRow' = 0 /\ genPc' = nextPc
    /\ UNCHANGED <<generator, canvasWidth, canvasHeight, sheetGenerator, sheetCalls,
                 sheetFills>>

GenerateIdleAnimations == LoopIteration("idle", "walk")
GenerateWalkAnimations == LoopIteration("walk", "run")
GenerateRunAnimations  == LoopIteration("run", "done")

\* const frameWidth = 32, frameHeight = 32 of generateAllFrames, and the factors
\* of canvas.width = 32 * 6, canvas.height = 32 * 12 in generatePlayerSpritesheet
sceneFrameWidth  == 32
sceneFrameHeight == 32
sceneColumns     == 6
sceneRows        == 12

\* GameScene.generatePlayerSpritesheet up to the generateAllFrames call
GeneratePlayerSpritesheet ==
    /\ genPc \in {"ready", "done"}
    /\ generator' = "GameScene"
    /\ KeepFinishedSheet
    /\ canvasWidth' = sceneFrameWidth * sceneColumns
    /\ canvasHeight' = sceneFrameHeight * sceneRows
    /\ sheetCtx' = Context("#000000")
    /\ calls' = <<>>
    /\ fills' = <<>>
    /\ genPc' = "allFrames"
    /\ genRow' = 0
    /\ genFrame' = 0

\* one iteration of the inner loop of GameScene.generateAllFrames
GenerateAllFrames ==
    /\ generator = "GameScene"
    /\ genPc = "allFrames"
    /\ LET anim == sceneAnimations[genRow + 1]
       IN  /\ DrawFrame(DrawCall(genFrame * sceneFrameWidth,
                                 anim.row * sceneFrameHeight,
                                 anim.direction, anim.action, genFrame,
                                 sceneOffsetY(anim.action, genFrame)))
           /\ IF genFrame + 1 < anim.frames
              THEN genFrame' = genFrame + 1 /\ UNCHANGED <<genRow, genPc>>
              ELSE IF genRow + 1 < Len(sceneAnimations)
              THEN genFrame' = 0 /\ genRow' = genRow + 1 /\ UNCHANGED genPc
              ELSE genFrame' = 0 /\ genRow' = 0 /\ genPc' = "done"
    /\ UNCHANGED <<generator, canvasWidth, canvasHeight, sheetGenerator, sheetCalls,
                 sheetFills>>

-----------------------------------------------------------------------------
(* SpriteConfig (SpriteEditorConfig.js) over localStorage *)

\* null, undefined and "no item" are the empty tuple; a value v is <<v>>
Null == <<>>

\* DEFAULT_ANIMATION_CONFIG as the script defines it when a page loads
DefaultConfigObject ==
    [frameWidth |-> 32, frameHeight |-> 32, animations |-> DEFAULT_ANIMATION_CONFIG]

\* AVAILABLE_ACTIONS: id and defaultFps
AVAILABLE_ACTIONS ==
    << [id |-> "idle", defaultFps |-> 4], [id |-> "walk", defaultFps |-> 8],
       [id |-> "run", defaultFps |-> 12], [id |-> "attack", defaultFps |-> 10],
       [id |-> "hurt", defaultFps |-> 6], [id |-> "death", defaultFps |-> 6],
       [id |-> "jump", defaultFps |-> 8], [id |-> "cast", defaultFps |-> 8] >>

\* AVAILABLE_DIRECTIONS: id
AVAILABLE_DIRECTIONS == <<"down", "left", "right", "up">>

\* a JSON value that is not an object, by its literal: 0, null, false, ""
Primitive(literal) == [literal |-> literal]

\* value is a primitive.  The configuration values of the model are
\* Primitive(literal) and a record for an object ({} is the empty record); the
\* animations of an object, when it has the field, is an array of clips
isPrimitive(value) == DOMAIN value = {"literal"}

\* this.config.animations.find can be called: the configuration is an object
\* with an animations array.  On any other value (1, true, "x", {},
\* {"frameWidth": 32, "frameHeight": 32}) the call throws a TypeError
hasAnimations(value) == ~isPrimitive(value) /\ "animations" \in DOMAIN value

\* The numbers of the model are the whole numbers of -10^9 .. 10^9.  NaN
\* (parseInt of an input left empty, a remainder by 0) is kept outside them
NaN == -2147483647

\* null where a number is expected: what JSON.parse gives for the null that
\* JSON.stringify wrote in the place of a NaN
JSONNull == -2147483646

\* a number as JSON.stringify writes it and JSON.parse reads it back: NaN
\* becomes null
jsonNumber(v) == IF v = NaN THEN JSONNull ELSE v

\* a clip as JSON.stringify writes it
jsonClip(clip) ==
    [f \in DOMAIN clip |->
        IF f \in {"action", "direction"} THEN clip[f] ELSE jsonNumber(clip[f])]

\* a configuration value as JSON.stringify writes it and JSON.parse reads it
\* back: the NaN among its numbers are null
jsonValue(value) ==
    IF isPrimitive(value)
    THEN value
    ELSE [f \in DOMAIN value |->
             IF f \in {"frameWidth", "frameHeight"} THEN jsonNumber(value[f])
             ELSE IF f = "animations"
             THEN [i \in DOMAIN value.animations |-> jsonClip(value.animations[i])]
             ELSE value[f]]

\* JSON.stringify(value): the text of a value, kept as the value JSON.parse
\* reads from it
stringify(value) == [json |-> <<jsonValue(value)>>]

\* text that JSON.parse rejects
Malformed == [json |-> <<>>]

\* JSON.parse(text): a fresh value, or an exception (parsed is FALSE)
parse(text) ==
    IF text.json = <<>> THEN [parsed |-> FALSE, value |-> Null]
    ELSE [parsed |-> TRUE, value |-> text.json]

\* animations.find(a => a.action === action && a.direction === direction): the
\* index of the first match, 0 when there is none
findIndex(animations, action, direction) ==
    LET matches == {i \in 1..Len(animations) :
                       /\ animations[i].action = action
                       /\ animations[i].direction = direction}
    IN  IF matches = {} THEN 0 ELSE CHOOSE i \in matches : \A j \in matches : i <= j

\* getAnimation(action, direction): the entry, or undefined
getAnimation(animations, action, direction) ==
    LET i == findIndex(animations, action, direction)
    IN  IF i = 0 THEN Null ELSE <<animations[i]>>

\* Object.assign(anim, updates) and { ...defaults, ...updates }: the fields of
\* updates over those of anim
assign(anim, updates) ==
    LET pick(f) == IF f \in DOMAIN updates THEN updates[f] ELSE anim[f]
    IN  Clip(pick("action"), pick("direction"), pick("row"), pick("startFrame"),
             pick("frameCount"), pick("frameRate"))

\* a plausible slip: the entry is pushed without looking for the pair
configUpdateAnimationAlwaysPush(animations, action, direction, updates) ==
    Append(animations, assign(Clip(action, direction, 0, 0, 4, 8), updates))

\* SpriteConfig.updateAnimation(action, direction, updates) on the array
\* this.config.animations: the entry found is assigned in place, a missing
\* one is pushed
configUpdateAnimation(animations, action, direction, updates) ==
    LET i == findIndex(animations, action, direction)
    IN  IF i # 0 THEN [animations EXCEPT ![i] = assign(@, updates)]
        ELSE Append(animations, assign(Clip(action, direction, 0, 0, 4, 8), updates))

\* localStorage.setItem throws (quota exceeded, or storage denied)
setItemThrows == storageMode \in {"full", "denied"}

\* localStorage.getItem and removeItem throw (storage denied to the page)
accessThrows == storageMode = "denied"

\* the values JSON.parse gives that a || b takes as false
falsy(value) ==
    value \in {Primitive("0"), Primitive("null"), Primitive("false"),
               Primitive("\"\"")}

\* loadConfig(): the saved configuration parsed, or null (nothing saved, the
\* access or the parse threw, or the text saved is null).  The empty text, which
\* saved ? ... : null takes for nothing saved, is among those JSON.parse
\* rejects: it gives null either way
loadConfig ==
    IF accessThrows \/ localStorage.spritesheet_config = Null THEN Null
    ELSE LET p == parse(localStorage.spritesheet_config[1])
         IN  IF p.parsed /\ p.value # <<Primitive("null")>> THEN p.value ELSE Null

\* loadSpritesheetData(): the saved data URL, or null
loadSpritesheetData ==
    IF accessThrows THEN Null ELSE localStorage.spritesheet_image

\* how an operation ended: what it returned ("exception" when it threw to its
\* caller; for the constructor, what loadConfig returned), whether an exception
\* left it, and whether one of its localStorage calls threw
Op(name, result, propagated, storageThrew) ==
    [name |-> name, result |-> result, propagated |-> propagated,
     storageThrew |-> storageThrew]

\* how a call updateAnimation(action, direction, updates) ended, with its
\* arguments
OpUpdate(action, direction, updates) ==
    [name |-> "updateAnimation", result |-> "undefined", propagated |-> FALSE,
     storageThrew |-> FALSE, action |-> action, direction |-> direction,
     updates |-> updates]

\* a call updateAnimation(action, direction, updates) that threw a TypeError
OpUpdateThrew(action, direction, updates) ==
    [name |-> "updateAnimation", result |-> "exception", propagated |-> TRUE,
     storageThrew |-> FALSE, action |-> action, direction |-> direction,
     updates |-> updates]

\* the left side of this.loadConfig() || { ...DEFAULT_ANIMATION_CONFIG } when
\* it is taken, null when the right side is: null and the falsy values both
\* give way to the default
loadedOrDefault ==
    IF loadConfig = Null \/ falsy(loadConfig[1]) THEN Null ELSE loadConfig

\* what loadConfig returned, for lastOp
loadConfigResult ==
    IF loadConfig = Null THEN "null"
    ELSE IF falsy(loadConfig[1]) THEN "falsy" ELSE "object"

\* the script runs on page load and new SpriteConfig() is constructed:
\* this.config = this.loadConfig() || { ...DEFAULT_ANIMATION_CONFIG }
NewSpriteConfig ==
    /\ defaultConfig' = DefaultConfigObject
    /\ IF loadedOrDefault = Null
       THEN config' = DefaultConfigObject /\ aliased' = TRUE
       ELSE config' = loadedOrDefault[1] /\ aliased' = FALSE
    /\ spritesheetData' = loadSpritesheetData
    /\ lastOp' = Op("constructor", loadConfigResult, FALSE, accessThrows)
    /\ UNCHANGED <<localStorage, storageMode>>

\* config.updateAnimation(action, direction, updates); while config.animations
\* is the array of DEFAULT_ANIMATION_CONFIG the default changes with it.  On a
\* configuration without an animations array the find call throws
UpdateAnimation(action, direction, updates) ==
    /\ IF hasAnimations(config)
       THEN LET animations == configUpdateAnimation(config.animations, action,
                                                    direction, updates)
            IN  /\ config' = [config EXCEPT !.animations = animations]
                /\ defaultConfig' = IF aliased
                                    THEN [defaultConfig EXCEPT !.animations = animations]
                                    ELSE defaultConfig
                /\ lastOp' = OpUpdate(action, direction, updates)
       ELSE /\ lastOp' = OpUpdateThrew(action, direction, updates)
            /\ UNCHANGED <<config, defaultConfig>>
    /\ UNCHANGED <<aliased, spritesheetData, localStorage, storageMode>>

\* config.getAnimation(action, direction); the find call throws on a
\* configuration without an animations array
GetAnimation(action, direction) ==
    /\ lastOp' = IF ~hasAnimations(config)
                 THEN Op("getAnimation", "exception", TRUE, FALSE)
                 ELSE Op("getAnimation",
                         IF getAnimation(config.animations, action, direction) = Null
                         THEN "undefined" ELSE "object", FALSE, FALSE)
    /\ UNCHANGED <<defaultConfig, config, aliased, spritesheetData, localStorage,
                   storageMode>>

\* config.saveConfig()
SaveConfig ==
    /\ IF setItemThrows
       THEN /\ lastOp' = Op("saveConfig", "false", FALSE, TRUE)
            /\ UNCHANGED localStorage
       ELSE /\ lastOp' = Op("saveConfig", "true", FALSE, FALSE)
            /\ localStorage' = [localStorage EXCEPT
                                   !.spritesheet_config = <<stringify(config)>>]
    /\ UNCHANGED <<defaultConfig, config, aliased, spritesheetData, storageMode>>

\* config.saveSpritesheetData(dataUrl)
SaveSpritesheetData(dataUrl) ==
    /\ IF setItemThrows
       THEN /\ lastOp' = Op("saveSpritesheetData", "false", FALSE, TRUE)
            /\ UNCHANGED <<localStorage, spritesheetData>>
       ELSE /\ lastOp' = Op("saveSpritesheetData", "true", FALSE, FALSE)
            /\ localStorage' = [localStorage EXCEPT !.spritesheet_image = <<dataUrl>>]
            /\ spritesheetData' = <<dataUrl>>
    /\ UNCHANGED <<defaultConfig, config, aliased, storageMode>>

\* config.reset(): the spread copies frameWidth and frameHeight and shares the
\* animations array; the removeItem calls are outside any try
Reset ==
    /\ config' = defaultConfig
    /\ aliased' = TRUE
    /\ IF accessThrows
       THEN /\ lastOp' = Op("reset", "exception", TRUE, TRUE)
            /\ UNCHANGED <<localStorage, spritesheetData>>
       ELSE /\ lastOp' = Op("reset", "undefined", FALSE, FALSE)
            /\ localStorage' = [spritesheet_config |-> Null, spritesheet_image |-> Null]
            /\ spritesheetData' = Null
    /\ UNCHANGED <<defaultConfig, storageMode>>

\* how a call importJSON(jsonString) ended, with its argument
OpImport(jsonString, result, storageThrew) ==
    [name |-> "importJSON", result |-> result, propagated |-> FALSE,
     storageThrew |-> storageThrew, jsonString |-> jsonString]

\* exportJSON(): JSON.stringify(this.config, null, 2), the text indented
exportJSON(value) == [json |-> <<jsonValue(value)>>, indent |-> 2]

\* config.importJSON(jsonString): saveConfig's result is dropped
ImportJSON(jsonString) ==
    LET p == parse(jsonString)
    IN  /\ IF ~p.parsed
           THEN /\ lastOp' = OpImport(jsonString, "false", FALSE)
                /\ UNCHANGED <<config, aliased, localStorage>>
           ELSE /\ config' = p.value[1]
                /\ aliased' = FALSE
                /\ lastOp' = OpImport(jsonString, "true", setItemThrows)
                /\ localStorage' = IF setItemThrows THEN localStorage
                                   ELSE [localStorage EXCEPT
                                            !.spritesheet_config = <<stringify(p.value[1])>>]
        /\ UNCHANGED <<defaultConfig, spritesheetData, storageMode>>

\* the page before anything was saved, storage working
ConfigIdle ==
    /\ storageMode = "ok"
    /\ localStorage = [spritesheet_config |-> Null, spritesheet_image |-> Null]
    /\ defaultConfig = DefaultConfigObject
    /\ config = DefaultConfigObject
    /\ aliased = TRUE
    /\ spritesheetData = Null
    /\ lastOp = Op("constructor", "null", FALSE, FALSE)

\* a data URL as FileReader.readAsDataURL gives it
DataUrls == {"data:image/png;base64,iVBOR"}

\* a configuration whose clip table is empty
EmptyTableObject == [frameWidth |-> 32, frameHeight |-> 32, animations |-> <<>>]

\* what an earlier visit may have left in localStorage: nothing, what the
\* editor saves, and the texts that the calls importJSON("1") and
\* importJSON('{"frameWidth":32,"frameHeight":32,"animations":[]}') stored
\* beside a saved image
StoredBefore ==
    { [spritesheet_config |-> Null, spritesheet_image |-> Null],
      [spritesheet_config |-> <<stringify(DefaultConfigObject)>>,
       spritesheet_image |-> <<"data:image/png;base64,iVBOR">>],
      [spritesheet_config |-> <<stringify(Primitive("1"))>>,
       spritesheet_image |-> <<"data:image/png;base64,iVBOR">>],
      [spritesheet_config |-> <<stringify(EmptyTableObject)>>,
       spritesheet_image |-> <<"data:image/png;base64,iVBOR">>] }

\* new SpriteConfig() on a page load, for each state of the storage
ConfigInit ==
    /\ storageMode \in {"ok", "full", "denied"}
    /\ localStorage \in StoredBefore
    /\ defaultConfig = DefaultConfigObject
    /\ config = IF loadedOrDefault = Null THEN DefaultConfigObject
                ELSE loadedOrDefault[1]
    /\ aliased = (loadedOrDefault = Null)
    /\ spritesheetData = loadSpritesheetData
    /\ lastOp = Op("constructor", loadConfigResult, FALSE, accessThrows)

\* the pairs and updates passed to updateAnimation; the row NaN is parseInt
\* of an input left empty
UpdatePairs == {<<"idle", "down">>, <<"attack", "down">>}
UpdateSets == {[row |-> NaN], [frameCount |-> 8]}

\* the texts passed to importJSON: one that is not JSON, a configuration of
\* one clip, and an object without animations
ImportTexts ==
    { Malformed,
      stringify([frameWidth |-> 32, frameHeight |-> 32,
                 animations |-> <<Clip("idle", "down", 2, 0, 4, 4)>>]),
      stringify([frameWidth |-> 32, frameHeight |-> 32]) }

-----------------------------------------------------------------------------
(* SpriteEditor (SpriteEditor.js) over one SpriteConfig *)

\* value of the #frame-width and #frame-height inputs when the page loads; the
\* page that declares them is not among the sources, the sheet's 32 x 32 frame
\* is taken
FrameSizeInputs == [width |-> 32, height |-> 32]

\* parseInt of the value of a number input that was written from v: given NaN,
\* null or undefined the input shows nothing, and parseInt("") is NaN
shown(v) == IF v \in {NaN, JSONNull} THEN NaN ELSE v

\* cfg.frameWidth or cfg.frameHeight where a number is expected: a field the
\* value does not have is undefined, NaN as a number
numberField(cfg, f) == IF f \in DOMAIN cfg THEN cfg[f] ELSE NaN

\* the three inputs renderAnimationList writes for one (action, direction):
\* the clip of the configuration, or the fallback literal when it has none
inputsFor(animations, action, direction) ==
    LET found == getAnimation(animations, action.id, direction)
        anim == IF found = Null
                THEN [row |-> 0, startFrame |-> 0, frameCount |-> 4,
                      frameRate |-> action.defaultFps]
                ELSE found[1]
    IN  [action |-> action.id, direction |-> direction, row |-> shown(anim.row),
         frameCount |-> shown(anim.frameCount), frameRate |-> shown(anim.frameRate)]

\* renderAnimationList(): the rows of inputs, AVAILABLE_ACTIONS by
\* AVAILABLE_DIRECTIONS, in document order
renderAnimationList(animations) ==
    [k \in 1..(Len(AVAILABLE_ACTIONS) * Len(AVAILABLE_DIRECTIONS)) |->
        inputsFor(animations,
                  AVAILABLE_ACTIONS[((k - 1) \div Len(AVAILABLE_DIRECTIONS)) + 1],
                  AVAILABLE_DIRECTIONS[((k - 1) % Len(AVAILABLE_DIRECTIONS)) + 1])]

\* the list renderAnimationList() leaves for the configuration cfg: on one
\* without an animations array the container has been emptied when the first
\* getAnimation throws
renderedList(cfg) ==
    IF hasAnimations(cfg) THEN renderAnimationList(cfg.animations) ELSE <<>>

\* the forEach of saveConfiguration: one updateAnimation per input, anim-row,
\* anim-frames and anim-fps of each table row.  The three of a table row assign
\* its values to the first clip of its pair; when the pair has no clip the
\* first pushes one (startFrame 0) and the next two assign to it.  Table rows
\* have distinct pairs, so the clips pushed follow the document order.
collectInputs(animations, rows) ==
    LET values(r) == [row |-> r.row, frameCount |-> r.frameCount,
                      frameRate |-> r.frameRate]
        rowOf(anim) == {k \in 1..Len(rows) : /\ rows[k].action = anim.action
                                             /\ rows[k].direction = anim.direction}
        assigned == [i \in 1..Len(animations) |->
                        IF /\ rowOf(animations[i]) # {}
                           /\ findIndex(animations, animations[i].action,
                                        animations[i].direction) = i
                        THEN assign(animations[i],
                                    values(rows[CHOOSE k \in rowOf(animations[i]) : TRUE]))
                        ELSE animations[i]]
        missing == SelectSeq(rows, LAMBDA r :
                                 findIndex(animations, r.action, r.direction) = 0)
        pushed == [k \in 1..Len(missing) |->
                      assign(Clip(missing[k].action, missing[k].direction, 0, 0, 4, 8),
                             values(missing[k]))]
    IN  assigned \o pushed

\* index of the table row of (action, direction)
inputIndex(rows, action, direction) ==
    CHOOSE k \in 1..Len(rows) : rows[k].action = action /\ rows[k].direction = direction

\* what a call of renderPreviewFrame did: the pair it was to show, whether an
\* image was loaded and whether the clip table has no clip for the pair,
\* the frameCount of the clip it read (0 when it read none),
\* previewFrame before and after, and the outcome: the placeholder drawn, a
\* frame drawn from (sx, sy) of the sheet, nothing at all (skipped), or a
\* TypeError of getAnimation on a configuration without a clip table
\* (exception)
Render(outcome, request, hadImage, missing, frameCount, frameBefore, frameAfter, sx, sy) ==
    [outcome |-> outcome, request |-> request, hadImage |-> hadImage,
     missing |-> missing, frameCount |-> frameCount, frameBefore |-> frameBefore,
     frameAfter |-> frameAfter, sx |-> sx, sy |-> sy]

NoRender == Render("none", <<"idle", "down">>, FALSE, FALSE, 0, 0, 0, 0, 0)

\* a value as the number an arithmetic operator takes it for: null is 0
toNumber(v) == IF v = JSONNull THEN 0 ELSE v

\* a + b of two numbers
plus(a, b) ==
    IF toNumber(a) = NaN \/ toNumber(b) = NaN THEN NaN ELSE toNumber(a) + toNumber(b)

\* a * b of two numbers
times(a, b) ==
    IF toNumber(a) = NaN \/ toNumber(b) = NaN THEN NaN ELSE toNumber(a) * toNumber(b)

\* a % b of two numbers: NaN when either is NaN or b is 0, else the remainder
\* of the division that truncates, which has the sign of a
remainder(a, b) ==
    LET x == toNumber(a)
        y == toNumber(b)
        abs(v) == IF v < 0 THEN -v ELSE v
    IN  IF x = NaN \/ y = NaN \/ y = 0 THEN NaN
        ELSE IF x < 0 THEN -(abs(x) % abs(y)) ELSE x % abs(y)

\* an interval timer of the page
Timer(id, delay) == [id |-> id, delay |-> delay]

\* 1000 / this.previewFps, kept as the quotient of the two numbers
delayOf(fps) == <<1000, fps>>

\* setInterval(callback, delay) returning id
setInterval(active, id, delay) == active \cup {Timer(id, delay)}

\* clearInterval(id)
clearInterval(active, id) == {t \in active : t.id # id}

\* restartPreviewAnimation(): if (this.previewInterval) clearInterval(...), then
\* startPreviewAnimation(); the timers active afterwards
restartPreviewAnimation(active, interval, fps, id) ==
    setInterval(IF interval # Null /\ interval[1] # 0
                THEN clearInterval(active, interval[1])
                ELSE active,
                id, delayOf(fps))

\* the timer state init() leaves: previewFps 8 and the timer of
\* startPreviewAnimation, the first of the page
TimerFields ==
    /\ previewFps = 8
    /\ previewInterval = <<1>>
    /\ timers = setInterval({}, 1, delayOf(8))
    /\ nextTimerId = 2

\* if (this.config.spritesheetData) of loadSavedSpritesheet: a data URL that
\* is not the empty string
truthy(data) == data # Null /\ data[1] # ""

\* updateSpriteInfo() with an image loaded: config.frameWidth and frameHeight
\* take parseInt of the values of #frame-width and #frame-height.  On a
\* primitive the assignment throws (the class body is strict code) and the
\* value stays
updateSpriteInfo(cfg, size) ==
    IF isPrimitive(cfg)
    THEN cfg
    ELSE [f \in DOMAIN cfg \cup {"frameWidth", "frameHeight"} |->
             IF f = "frameWidth" THEN size.width
             ELSE IF f = "frameHeight" THEN size.height
             ELSE cfg[f]]

\* for (let x = 0; x <= canvas.width; x += step) ends: canvas.width is not
\* negative, so the loop is entered; a step that is NaN ends it at the second
\* test, a step above 0 gets past canvas.width, a step of 0 or below never does
gridLoopEnds(step) == step = NaN \/ step > 0

\* renderGrid() returns: each loop adds parseInt of its frame size input times
\* this.zoom on each turn; the loop of the vertical lines ends, and then the
\* one of the horizontal lines
renderGrid(size, z) ==
    /\ gridLoopEnds(times(size.width, z))
    /\ gridLoopEnds(times(size.height, z))

\* renderSpritesheet(): nothing without an image, else the sheet is drawn,
\* renderGrid() runs and, when it returns, updateSpriteInfo(); whether the
\* call returns, and the configuration it leaves
renderSpritesheet(cfg, hasImage, size, z) ==
    IF ~hasImage THEN [returns |-> TRUE, config |-> cfg]
    ELSE IF ~renderGrid(size, z) THEN [returns |-> FALSE, config |-> cfg]
    ELSE [returns |-> TRUE, config |-> updateSpriteInfo(cfg, size)]

\* the editor fields as the constructor sets them
EditorFields ==
    /\ image = FALSE
    /\ hung = FALSE
    /\ zoom = 3
    /\ frameInputs = FrameSizeInputs
    /\ previewAction = "idle"
    /\ previewDirection = "down"
    /\ previewFrame = 0
    /\ lastRender = NoRender
    /\ saveClicked = FALSE
    /\ status = "none"

EditorIdle ==
    /\ EditorFields
    /\ TimerFields
    /\ inputs = renderAnimationList(DEFAULT_ANIMATION_CONFIG)
    /\ imagePending = FALSE

\* new SpriteEditor() on DOMContentLoaded, for each state of the storage.
\* init() runs setupEventListeners, renderAnimationList, loadSavedSpritesheet
\* and startPreviewAnimation; when renderAnimationList throws (no animations
\* array) the last two do not run: no saved image is loading and no timer is
\* started, with the listeners in place
EditorInit ==
    /\ ConfigInit
    /\ EditorFields
    /\ inputs = renderedList(config)
    /\ IF hasAnimations(config)
       THEN /\ imagePending = truthy(spritesheetData)
            /\ TimerFields
       ELSE /\ imagePending = FALSE
            /\ previewFps = 8
            /\ previewInterval = Null
            /\ timers = {}
            /\ nextTimerId = 1

\* the page is loaded again, be it from a page that no longer answers:
\* new SpriteEditor() and its init()
NewSpriteEditor ==
    /\ NewSpriteConfig
    /\ image' = FALSE
    /\ hung' = FALSE
    /\ zoom' = 3
    /\ frameInputs' = FrameSizeInputs
    /\ previewAction' = "idle"
    /\ previewDirection' = "down"
    /\ previewFrame' = 0
    /\ lastRender' = NoRender
    /\ saveClicked' = FALSE
    /\ status' = "none"
    /\ previewFps' = 8
    /\ inputs' = renderedList(config')
    /\ IF hasAnimations(config')
       THEN /\ imagePending' = truthy(spritesheetData')
            /\ previewInterval' = <<1>>
            /\ timers' = setInterval({}, 1, delayOf(8))
            /\ nextTimerId' = 2
       ELSE /\ imagePending' = FALSE
            /\ previewInterval' = Null
            /\ timers' = {}
            /\ nextTimerId' = 1

\* img.onload of loadSavedSpritesheet: the image is kept, the frame size inputs
\* take the saved frame size, renderSpritesheet() runs and its updateSpriteInfo
\* writes them back; showStatus follows when renderSpritesheet returns.  On a
\* configuration that is null the read of its frameWidth throws before the
\* inputs are written; on any other primitive the inputs are written from
\* undefined and updateSpriteInfo throws: showStatus is not reached
SavedImageLoaded ==
    /\ ~hung
    /\ imagePending
    /\ imagePending' = FALSE
    /\ image' = TRUE
    /\ IF config = Primitive("null")
       THEN UNCHANGED <<frameInputs, config, hung, status>>
       ELSE /\ frameInputs' = [width |-> shown(numberField(config, "frameWidth")),
                               height |-> shown(numberField(config, "frameHeight"))]
            /\ LET r == renderSpritesheet(config, TRUE, frameInputs', zoom)
               IN  /\ config' = r.config
                   /\ hung' = ~r.returns
                   /\ status' = IF ~r.returns \/ isPrimitive(config)
                                 THEN status ELSE "success"
    /\ lastRender' = NoRender
    /\ saveClicked' = FALSE
    /\ UNCHANGED <<timerVars, defaultConfig, aliased, spritesheetData, localStorage,
                   storageMode, lastOp, zoom, previewAction, previewDirection,
                   previewFrame, inputs>>

\* img.onload of loadImage(file): the image is kept, saveSpritesheetData is
\* called and its result dropped, renderSpritesheet runs; when it does not
\* return, or its updateSpriteInfo throws, showStatus is not reached
LoadImage(dataUrl) ==
    /\ ~hung
    /\ image' = TRUE
    /\ IF setItemThrows
       THEN /\ lastOp' = Op("saveSpritesheetData", "false", FALSE, TRUE)
            /\ UNCHANGED <<localStorage, spritesheetData>>
       ELSE /\ lastOp' = Op("saveSpritesheetData", "true", FALSE, FALSE)
            /\ localStorage' = [localStorage EXCEPT !.spritesheet_image = <<dataUrl>>]
            /\ spritesheetData' = <<dataUrl>>
    /\ LET r == renderSpritesheet(config, TRUE, frameInputs, zoom)
       IN  /\ config' = r.config
           /\ hung' = ~r.returns
           /\ status' = IF ~r.returns \/ isPrimitive(config) THEN status ELSE "success"
    /\ lastRender' = NoRender
    /\ saveClicked' = FALSE
    /\ UNCHANGED <<timerVars, defaultConfig, aliased, storageMode, zoom, frameInputs,
                   previewAction, previewDirection, previewFrame, inputs, imagePending>>

\* updateFrameSize() with the two inputs holding size: renderSpritesheet()
\* runs, then renderAnimationList(), which writes the inputs of the list anew;
\* when renderSpritesheet does not return, or its updateSpriteInfo throws, the
\* list is not reached
UpdateFrameSize(size) ==
    /\ ~hung
    /\ frameInputs' = size
    /\ LET r == renderSpritesheet(config, image, size, zoom)
       IN  /\ config' = r.config
           /\ hung' = ~r.returns
           /\ inputs' = IF ~r.returns \/ (image /\ isPrimitive(config)) THEN inputs
                        ELSE renderedList(r.config)
    /\ lastRender' = NoRender
    /\ saveClicked' = FALSE
    /\ UNCHANGED <<timerVars, defaultConfig, aliased, spritesheetData, localStorage,
                   storageMode, lastOp, image, imagePending, zoom, previewAction,
                   previewDirection, previewFrame, status>>

\* change event of #frame-width, the user having typed value: the other input
\* holds what it held
FrameWidthChange(value) == UpdateFrameSize([frameInputs EXCEPT !.width = value])

\* change event of #frame-height, the user having typed value
FrameHeightChange(value) == UpdateFrameSize([frameInputs EXCEPT !.height = value])

\* input event of the zoom slider with value: this.zoom is set and
\* renderSpritesheet() runs
ZoomInput(value) ==
    /\ ~hung
    /\ zoom' = value
    /\ LET r == renderSpritesheet(config, image, frameInputs, value)
       IN  /\ config' = r.config
           /\ hung' = ~r.returns
    /\ lastRender' = NoRender
    /\ saveClicked' = FALSE
    /\ UNCHANGED <<timerVars, defaultConfig, aliased, spritesheetData, localStorage,
                   storageMode, lastOp, image, imagePending, frameInputs, previewAction,
                   previewDirection, previewFrame, status, inputs>>

\* click on the sheet, handleSpritesheetClick(e): nothing without an image,
\* else the row under the click is selected and renderGrid() runs, with the
\* frame size inputs and the zoom as they are; the selected row only tints
\* the grid
HandleSpritesheetClick ==
    /\ ~hung
    /\ hung' = (image /\ ~renderGrid(frameInputs, zoom))
    /\ lastRender' = NoRender
    /\ saveClicked' = FALSE
    /\ UNCHANGED <<timerVars, configVars, image, imagePending, zoom, frameInputs,
                   previewAction, previewDirection, previewFrame, status, inputs>>

\* input event of the FPS slider with value typed in: previewFps is set and
\* restartPreviewAnimation() runs
FpsInput(value) ==
    /\ ~hung
    /\ nextTimerId <= MaxTimerId
    /\ previewFps' = value
    /\ timers' = restartPreviewAnimation(timers, previewInterval, value, nextTimerId)
    /\ previewInterval' = <<nextTimerId>>
    /\ nextTimerId' = nextTimerId + 1
    /\ lastRender' = NoRender
    /\ saveClicked' = FALSE
    /\ UNCHANGED <<configVars, image, imagePending, hung, zoom, frameInputs,
                   previewAction, previewDirection, previewFrame, status, inputs>>

\* click on a button of #action-buttons
ClickAction(action) ==
    /\ ~hung
    /\ previewAction' = action
    /\ previewFrame' = 0
    /\ lastRender' = NoRender
    /\ saveClicked' = FALSE
    /\ UNCHANGED <<timerVars, configVars, image, zoom, frameInputs, previewDirection,
                   status, inputs, imagePending, hung>>

\* click on a button of #direction-buttons
ClickDirection(direction) ==
    /\ ~hung
    /\ previewDirection' = direction
    /\ previewFrame' = 0
    /\ lastRender' = NoRender
    /\ saveClicked' = FALSE
    /\ UNCHANGED <<timerVars, configVars, image, zoom, frameInputs, previewAction,
                   status, inputs, imagePending, hung>>

\* a table row after the user typed the values of updates into its inputs
typed(r, updates) ==
    LET pick(f) == IF f \in DOMAIN updates THEN updates[f] ELSE r[f]
    IN  [action |-> r.action, direction |-> r.direction, row |-> pick("row"),
         frameCount |-> pick("frameCount"), frameRate |-> pick("frameRate")]

\* the user changes one input of the animation list, which is there to change:
\* handleAnimationChange(e) calls updateAnimation with parseInt of its value
HandleAnimationChange(action, direction, updates) ==
    /\ ~hung
    /\ \E k \in 1..Len(inputs) :
          inputs[k].action = action /\ inputs[k].direction = direction
    /\ inputs' = [inputs EXCEPT ![inputIndex(inputs, action, direction)] =
                                    typed(@, updates)]
    /\ UpdateAnimation(action, direction, updates)
    /\ lastRender' = NoRender
    /\ saveClicked' = FALSE
    /\ UNCHANGED <<timerVars, image, zoom, frameInputs, previewAction,
                   previewDirection, previewFrame, status, imagePending, hung>>

\* const anim = this.config.getAnimation(this.previewAction, this.previewDirection)
renderPreviewClip(animations, action, direction) ==
    getAnimation(animations, action, direction)

\* one tick of an active preview timer of a page that answers:
\* renderPreviewFrame()
RenderPreviewFrame ==
    LET request == <<previewAction, previewDirection>>
        missing == /\ hasAnimations(config)
                   /\ getAnimation(config.animations, previewAction,
                                   previewDirection) = Null
    IN  /\ ~hung
        /\ timers # {}
        /\ IF ~image
           THEN /\ lastRender' = Render("placeholder", request, FALSE, missing, 0,
                                        previewFrame, previewFrame, 0, 0)
                /\ UNCHANGED previewFrame
           ELSE IF ~hasAnimations(config)
           THEN /\ lastRender' = Render("exception", request, TRUE, missing, 0,
                                        previewFrame, previewFrame, 0, 0)
                /\ UNCHANGED previewFrame
           ELSE LET anim == renderPreviewClip(config.animations, previewAction,
                                              previewDirection)
                IN  IF anim = Null
                    THEN /\ lastRender' = Render("skipped", request, TRUE, missing, 0,
                                                 previewFrame, previewFrame, 0, 0)
                         /\ UNCHANGED previewFrame
                    ELSE /\ previewFrame' = remainder(plus(previewFrame, 1),
                                                      anim[1].frameCount)
                         /\ lastRender' =
                                Render("frame", request, TRUE, missing,
                                       anim[1].frameCount, previewFrame, previewFrame',
                                       times(plus(anim[1].startFrame, previewFrame'),
                                             numberField(config, "frameWidth")),
                                       times(anim[1].row,
                                             numberField(config, "frameHeight")))
        /\ saveClicked' = FALSE
        /\ UNCHANGED <<timerVars, configVars, image, zoom, frameInputs, previewAction,
                       previewDirection, status, inputs, imagePending, hung>>

\* saveConfiguration() past its image check: updateAnimation for every input
\* of the list, then saveConfig() and the status of its result.  With inputs
\* on a configuration without an animations array the first updateAnimation
\* throws
SaveInputs ==
    /\ ~hung
    /\ IF inputs # <<>> /\ ~hasAnimations(config)
       THEN /\ lastOp' = OpUpdateThrew(inputs[1].action, inputs[1].direction,
                                       [row |-> inputs[1].row])
            /\ UNCHANGED <<config, defaultConfig, status, localStorage>>
       ELSE LET saved == IF hasAnimations(config)
                         THEN [config EXCEPT
                                  !.animations = collectInputs(config.animations, inputs)]
                         ELSE config
            IN  /\ config' = saved
                /\ defaultConfig' = IF aliased
                                    THEN [defaultConfig EXCEPT
                                             !.animations = saved.animations]
                                    ELSE defaultConfig
                /\ IF setItemThrows
                   THEN /\ lastOp' = Op("saveConfig", "false", FALSE, TRUE)
                        /\ status' = "error"
                        /\ UNCHANGED localStorage
                   ELSE /\ lastOp' = Op("saveConfig", "true", FALSE, FALSE)
                        /\ status' = "success"
                        /\ localStorage' = [localStorage EXCEPT
                                               !.spritesheet_config = <<stringify(saved)>>]
    /\ lastRender' = NoRender
    /\ saveClicked' = TRUE
    /\ UNCHANGED <<timerVars, aliased, spritesheetData, storageMode, image, zoom,
                   frameInputs, previewAction, previewDirection, previewFrame, inputs,
                   imagePending, hung>>

\* a plausible slip: saveConfiguration() without its image check
SaveConfigurationUnguarded == SaveInputs

\* click on #save-config: saveConfiguration()
SaveConfiguration ==
    IF ~image
    THEN /\ ~hung
         /\ status' = "error"
         /\ lastRender' = NoRender
         /\ saveClicked' = TRUE
         /\ UNCHANGED <<timerVars, configVars, image, zoom, frameInputs, previewAction,
                        previewDirection, previewFrame, inputs, imagePending, hung>>
    ELSE SaveInputs

\* click on #export-config: exportConfiguration() hands the text of
\* exportJSON() to a download and shows its status
ExportConfiguration ==
    /\ ~hung
    /\ status' = "success"
    /\ lastRender' = NoRender
    /\ saveClicked' = FALSE
    /\ UNCHANGED <<timerVars, configVars, image, imagePending, hung, zoom, frameInputs,
                   previewAction, previewDirection, previewFrame, inputs>>

\* data-action and data-direction of the preview buttons clicked; the page
\* that declares the buttons is not among the sources, ids of
\* AVAILABLE_ACTIONS and AVAILABLE_DIRECTIONS are taken: the action goes
\* between one of the default mapping and a placeholder one, the direction
\* button clicked is the one of the running preview
PreviewActions == {"idle", "attack"}
PreviewDirections == {"down"}

\* data-action of the action button clicked where the preview is not what is
\* looked at: the button of the action already shown
EditorActions == {"idle"}

\* values of the FPS slider on its input events; the page that declares the
\* slider is not among the sources
FpsValues == {12}

\* the values typed into #frame-width and into #frame-height, parseInt taken:
\* a frame size, 0 and a negative number (min of the inputs does not stop a
\* value being typed); a change event comes with a value other than the one
\* the input held
FrameWidths == {-32, 0, 64}
FrameHeights == {-32, 0, 48}

\* values of the zoom slider on its input events, parseInt taken: 0 and the
\* zoom the constructor sets; the page that declares the slider and its range
\* is not among the sources
ZoomValues == {0, 3}

\* the input the user changes, with the value typed: the frame count of a
\* placeholder pair, which has no clip until then
EditedInputs == { <<"attack", "down", [frameCount |-> 2]>> }

\* the frame counts typed while the preview runs: the Frames input of
\* idle-down set to 0 or to -1 (min="1" of the input does not stop the value
\* being typed), left empty (parseInt gives NaN) and set to 2
FrameCountEdits == { <<"idle", "down", [frameCount |-> 0]>>,
                     <<"idle", "down", [frameCount |-> -1]>>,
                     <<"idle", "down", [frameCount |-> NaN]>>,
                     <<"idle", "down", [frameCount |-> 2]>> }

-----------------------------------------------------------------------------
(* Specifications *)

Init == PlayerInit /\ GenInit /\ DrawIdle /\ ConfigIdle /\ EditorIdle

Next == Tick

\* the Player under every sequence of update ticks
Spec == Init /\ [][Next]_vars

GenNext ==
    \/ GenerateSpritesheet /\ UNCHANGED notGenVars
    \/ GenerateIdleAnimations /\ UNCHANGED notGenVars
    \/ GenerateWalkAnimations /\ UNCHANGED notGenVars
    \/ GenerateRunAnimations /\ UNCHANGED notGenVars
    \/ GeneratePlayerSpritesheet /\ UNCHANGED notGenVars
    \/ GenerateAllFrames /\ UNCHANGED notGenVars

\* the two sheet generations, frame by frame
GenSpec == Init /\ [][GenNext]_vars

DrawNext ==
    \E origin \in CellOrigins, direction \in Directions, action \in Actions,
       frame \in DrawFrames :
      \E offsetY \in OffsetYs(action) :
        DrawCharacter(origin[1], origin[2], direction, action, frame, offsetY)
            /\ UNCHANGED notDrawVars

\* drawCharacter called with any arguments, any number of times
DrawSpec == Init /\ [][DrawNext]_vars

\* a frame of the sheet drawn again: the call of the finished generation, with
\* its arguments, on the caller's own context
Redraw ==
    /\ genPc = "done"
    /\ \E i \in 1..Len(calls) :
          DrawCharacter(calls[i].x, calls[i].y, calls[i].direction, calls[i].action,
                        calls[i].frame, calls[i].offsetY)
    /\ UNCHANGED notDrawVars

RedrawNext ==
    \/ dcArgs = NoCall /\ GenNext
    \/ Redraw

\* sheets generated one after the other, then frames of the last one drawn
\* again, any of them, any number of times
RedrawSpec == Init /\ [][RedrawNext]_vars

ConfigSpecInit == PlayerInit /\ GenInit /\ DrawIdle /\ ConfigInit /\ EditorIdle

ConfigNext ==
    \/ NewSpriteConfig /\ UNCHANGED notConfigVars
    \/ \E pair \in UpdatePairs, updates \in UpdateSets :
           UpdateAnimation(pair[1], pair[2], updates) /\ UNCHANGED notConfigVars
    \/ \E pair \in UpdatePairs :
           GetAnimation(pair[1], pair[2]) /\ UNCHANGED notConfigVars
    \/ SaveConfig /\ UNCHANGED notConfigVars
    \/ \E dataUrl \in DataUrls : SaveSpritesheetData(dataUrl) /\ UNCHANGED notConfigVars
    \/ Reset /\ UNCHANGED notConfigVars
    \/ \E jsonString \in ImportTexts : ImportJSON(jsonString) /\ UNCHANGED notConfigVars
    \/ ImportJSON(exportJSON(config)) /\ UNCHANGED notConfigVars

\* the operations of SpriteConfig in any order, page reloads included
ConfigSpec == ConfigSpecInit /\ [][ConfigNext]_vars

EditorSpecInit == PlayerInit /\ GenInit /\ DrawIdle /\ EditorInit

EditorNext ==
    \/ NewSpriteEditor /\ UNCHANGED notEditorVars
    \/ SavedImageLoaded /\ UNCHANGED notEditorVars
    \/ \E dataUrl \in DataUrls : LoadImage(dataUrl) /\ UNCHANGED notEditorVars
    \/ \E action \in EditorActions : ClickAction(action) /\ UNCHANGED notEditorVars
    \/ \E direction \in PreviewDirections :
           ClickDirection(direction) /\ UNCHANGED notEditorVars
    \/ \E edit \in EditedInputs :
           HandleAnimationChange(edit[1], edit[2], edit[3]) /\ UNCHANGED notEditorVars
    \/ SaveConfiguration /\ UNCHANGED notEditorVars
    \/ ExportConfiguration /\ UNCHANGED notEditorVars
    \/ \E value \in FrameWidths \ {frameInputs.width} :
           FrameWidthChange(value) /\ UNCHANGED notEditorVars
    \/ \E value \in FrameHeights \ {frameInputs.height} :
           FrameHeightChange(value) /\ UNCHANGED notEditorVars
    \/ \E value \in ZoomValues \ {zoom} : ZoomInput(value) /\ UNCHANGED notEditorVars
    \/ HandleSpritesheetClick /\ UNCHANGED notEditorVars
    \/ \E value \in FpsValues : FpsInput(value) /\ UNCHANGED notEditorVars

\* the editor page under its user's events and reloads; the ticks of the
\* preview timer run under PreviewSpec
EditorSpec == EditorSpecInit /\ [][EditorNext]_vars

PreviewNext ==
    \/ SavedImageLoaded /\ UNCHANGED notEditorVars
    \/ \E dataUrl \in DataUrls : LoadImage(dataUrl) /\ UNCHANGED notEditorVars
    \/ \E action \in PreviewActions : ClickAction(action) /\ UNCHANGED notEditorVars
    \/ \E direction \in PreviewDirections :
           ClickDirection(direction) /\ UNCHANGED notEditorVars
    \/ \E edit \in FrameCountEdits :
           HandleAnimationChange(edit[1], edit[2], edit[3]) /\ UNCHANGED notEditorVars
    \/ RenderPreviewFrame /\ UNCHANGED notEditorVars
    \/ \E value \in FrameWidths \ {frameInputs.width} :
           FrameWidthChange(value) /\ UNCHANGED notEditorVars
    \/ \E value \in FrameHeights \ {frameInputs.height} :
           FrameHeightChange(value) /\ UNCHANGED notEditorVars

ReloadNext ==
    \/ Tick
    \/ NewPlayer /\ UNCHANGED notPlayerVars

\* Player ticks with scene reloads between them, each constructing a Player
ReloadSpec == Init /\ [][ReloadNext]_vars

\* the preview of one page load: timer ticks interleaved with edits of a frame
\* count and clicks on the preview buttons
PreviewSpec == EditorSpecInit /\ [][PreviewNext]_vars

-----------------------------------------------------------------------------
(* Properties of the animation selector (under Spec) *)

\* the clip names, written out
ClipName ==
    [idle |-> [down |-> "idle-down", left |-> "idle-left",
               right |-> "idle-right", up |-> "idle-up"],
     walk |-> [down |-> "walk-down", left |-> "walk-left",
               right |-> "walk-right", up |-> "walk-up"],
     run  |-> [down |-> "run-down", left |-> "run-left",
               right |-> "run-right", up |-> "run-up"]]

\* a tick has been processed
Ticked == input.none = FALSE

\* some direction flag was set on the last tick
AnyFlag == input.left \/ input.right \/ input.up \/ input.down

\* the pair the last tick resolved, as the selector's contract states it
ResolvedState == IF AnyFlag THEN (IF input.isRunning THEN "run" ELSE "walk") ELSE "idle"

ResolvedDirection ==
    IF input.left THEN "left"
    ELSE IF input.right THEN "right"
    ELSE IF input.up THEN "up"
    ELSE IF input.down THEN "down"
    ELSE fromDirection

ResolvedDiffers == ResolvedState # fromState \/ ResolvedDirection # fromDirection

\* C1: a tick calls sprite.play, with the key '<newState>-<newDirection>', and
\* stores the new pair exactly when the resolved pair differs from the stored
\* one; otherwise it plays nothing and leaves the stored pair alone; it never
\* plays more than one clip.
C1_SwitchIffChanged ==
    Ticked =>
        /\ Len(played) <= 1
        /\ ResolvedDiffers =>
              /\ played = <<ClipName[ResolvedState][ResolvedDirection]>>
              /\ currentState = ResolvedState
              /\ currentDirection = ResolvedDirection
        /\ ~ResolvedDiffers =>
              /\ played = <<>>
              /\ currentState = fromState
              /\ currentDirection = fromDirection

\* a tick that switched the clip although the direction stayed the same
C1_Witness ==
    /\ Ticked
    /\ fromState = "walk" /\ fromDirection = "right"
    /\ played = <<"run-right">>
    /\ currentState = "run" /\ currentDirection = "right"

\* C2: with at least one direction flag set, the direction after the tick is the
\* first set flag in the order left, right, up, down, whatever the running
\* modifier and the previous state are.
C2_DirectionPriority ==
    (Ticked /\ AnyFlag) =>
        /\ input.left => currentDirection = "left"
        /\ (~input.left /\ input.right) => currentDirection = "right"
        /\ (~input.left /\ ~input.right /\ input.up) => currentDirection = "up"
        /\ (~input.left /\ ~input.right /\ ~input.up /\ input.down)
              => currentDirection = "down"

\* left, up and down held together while facing right: the character faces left
C2_Witness ==
    /\ Ticked
    /\ input.left /\ ~input.right /\ input.up /\ input.down
    /\ fromDirection = "right"
    /\ currentDirection = "left"

\* C3: with no direction flag set the tick resolves idle, running or not, and
\* keeps the previous direction; from (walk,left) and from (run,left) it ends in
\* (idle,left) and plays 'idle-left'.
C3_NoFlagsIdle ==
    (Ticked /\ ~AnyFlag) =>
        /\ currentState = "idle"
        /\ currentDirection = fromDirection
        /\ (fromState \in {"walk", "run"} /\ fromDirection = "left")
              => played = <<"idle-left">>

\* shift alone held after running left
C3_Witness ==
    /\ Ticked /\ ~AnyFlag /\ input.isRunning
    /\ fromState = "run" /\ fromDirection = "left"
    /\ currentState = "idle" /\ currentDirection = "left"
    /\ played = <<"idle-left">>

\* C4: with a direction flag set the tick resolves run when running and walk
\* otherwise, from every state; (idle,down) with right alone gives (walk,right)
\* and 'walk-right', (walk,right) with right and running gives (run,right) and
\* 'run-right'.
C4_WalkOrRun ==
    (Ticked /\ AnyFlag) =>
        /\ currentState = (IF input.isRunning THEN "run" ELSE "walk")
        /\ ( /\ fromState = "idle" /\ fromDirection = "down"
             /\ input.right /\ ~input.left /\ ~input.up /\ ~input.down
             /\ ~input.isRunning )
              => /\ currentState = "walk" /\ currentDirection = "right"
                 /\ played = <<"walk-right">>
        /\ ( /\ fromState = "walk" /\ fromDirection = "right"
             /\ input.right /\ ~input.left /\ ~input.up /\ ~input.down
             /\ input.isRunning )
              => /\ currentState = "run" /\ currentDirection = "right"
                 /\ played = <<"run-right">>

\* scenario 2 has happened
C4_Witness ==
    /\ Ticked
    /\ fromState = "walk" /\ fromDirection = "right"
    /\ input.right /\ ~input.left /\ ~input.up /\ ~input.down /\ input.isRunning
    /\ currentState = "run" /\ played = <<"run-right">>

\* C5: a tick whose input equals the input of the tick before it plays nothing
\* and leaves the stored pair as the earlier tick left it.
C5_Idempotent ==
    (Ticked /\ prevInput = input) =>
        /\ played = <<>>
        /\ currentState = fromState
        /\ currentDirection = fromDirection

\* right and running on two ticks in a row
C5_Witness ==
    /\ Ticked /\ prevInput = input
    /\ input.right /\ ~input.left /\ ~input.up /\ ~input.down /\ input.isRunning
    /\ currentState = "run" /\ currentDirection = "right"
    /\ played = <<>>

AllPairs == Actions \X Directions

\* the pairs the selector can store, starting from the pairs in S
RECURSIVE PairsFrom(_)
PairsFrom(S) ==
    LET T == S \cup
             { <<updateAnimation(p[1], p[2], in.left, in.right, in.up, in.down,
                                 in.isRunning).state,
                 updateAnimation(p[1], p[2], in.left, in.right, in.up, in.down,
                                 in.isRunning).direction>> : p \in S, in \in Inputs }
    IN  IF T = S THEN S ELSE PairsFrom(T)

\* the pairs the selector can store after construction
ReachablePairs == PairsFrom({<<"idle", "down">>})

\* C6: the stored pair is always one of the 12 pairs of {idle,walk,run} x
\* {down,left,right,up}; every one of the 32 inputs can be processed in every
\* reachable state; and the pairs that can be reached from (idle,down) are all 12.
C6_TotalMachine ==
    /\ <<currentState, currentDirection>> \in AllPairs
    /\ \A in \in Inputs : ENABLED Update(in)
    /\ ReachablePairs = AllPairs
    /\ Cardinality(AllPairs) = 12
    /\ Cardinality(Inputs) = 32

\* the pair farthest from the initial one is stored
C6_Witness ==
    /\ Ticked
    /\ currentState = "idle" /\ currentDirection = "up"
    /\ fromState = "run"

-----------------------------------------------------------------------------
(* Properties of the clip tables and of the sheet generators (under GenSpec) *)

\* frames per clip as the specification states them
ClaimedFrameCount(a) == IF a = "idle" THEN 4 ELSE 6

\* indices of the drawCharacter calls issued so far for the clip (a, d)
CallsOf(a, d) == {i \in 1..Len(calls) : calls[i].action = a /\ calls[i].direction = d}

ConfigEntries(a, d) ==
    {i \in 1..Len(DEFAULT_ANIMATION_CONFIG) :
        /\ DEFAULT_ANIMATION_CONFIG[i].action = a
        /\ DEFAULT_ANIMATION_CONFIG[i].direction = d}

SceneEntries(a, d) ==
    {i \in 1..Len(sceneAnimations) :
        sceneAnimations[i].action = a /\ sceneAnimations[i].direction = d}

\* C7: in DEFAULT_ANIMATION_CONFIG, in the frame ranges registered by
\* Player.createAnimations, in the table of GameScene.generateAllFrames and in
\* the frames either generator draws, each of the 4 idle clips has exactly 4
\* frames and each of the 8 walk and run clips has exactly 6.
C7_FrameCounts ==
    /\ Len(DEFAULT_ANIMATION_CONFIG) = 12
    /\ Len(sceneAnimations) = 12
    /\ Cardinality(DOMAIN anims) = 12
    /\ \A a \in Actions, d \in Directions :
          /\ Cardinality(ConfigEntries(a, d)) = 1
          /\ \A i \in ConfigEntries(a, d) :
                DEFAULT_ANIMATION_CONFIG[i].frameCount = ClaimedFrameCount(a)
          /\ ClipName[a][d] \in DOMAIN anims
          /\ anims[ClipName[a][d]].end - anims[ClipName[a][d]].start + 1
                = ClaimedFrameCount(a)
          /\ Cardinality(SceneEntries(a, d)) = 1
          /\ \A i \in SceneEntries(a, d) :
                sceneAnimations[i].frames = ClaimedFrameCount(a)
          /\ Cardinality(CallsOf(a, d)) <= ClaimedFrameCount(a)
          /\ genPc = "done" =>
                /\ Cardinality(CallsOf(a, d)) = ClaimedFrameCount(a)
                /\ {calls[i].frame : i \in CallsOf(a, d)}
                      = 0..(ClaimedFrameCount(a) - 1)

\* SpriteGenerator.generateSpritesheet has drawn its whole sheet
C7_Witness ==
    /\ generator = "SpriteGenerator"
    /\ genPc = "done"
    /\ Cardinality(CallsOf("idle", "up")) = 4
    /\ Cardinality(CallsOf("run", "up")) = 6

ActionIndex(a) == CASE a = "idle" -> 0 [] a = "walk" -> 1 [] a = "run" -> 2

DirectionIndex(d) == CASE d = "down" -> 0 [] d = "left" -> 1 [] d = "right" -> 2
                       [] d = "up" -> 3

\* the sheet row the specification gives the clip (a, d)
ClaimedRow(a, d) == 4 * ActionIndex(a) + DirectionIndex(d)

\* rectangle inner lies within rectangle outer
Covers(outer, inner) ==
    /\ outer.x <= inner.x
    /\ inner.x + inner.width <= outer.x + outer.width
    /\ outer.y <= inner.y
    /\ inner.y + inner.height <= outer.y + outer.height

\* the cell of the sheet with origin (x, y), and the whole sheet
Cell(x, y) == [x |-> x, y |-> y, width |-> frameWidth, height |-> frameHeight]
Sheet      == [x |-> 0, y |-> 0, width |-> canvasWidth, height |-> canvasHeight]

\* C8: the sheet is frameWidth * framesPerRow = 192 wide and frameHeight *
\* totalRows = 384 high; every drawCharacter call for frame f of the clip
\* (action, direction) gets the origin (frameWidth * f, frameHeight * row) with
\* row = 4 * index(action) + index(direction); every such cell lies inside the
\* 6 x 12 grid; the frame is drawn in its cell: every fill of the call lies
\* within the cell, and so within the sheet; and a finished generation has
\* drawn every clip.
C8_SheetLayout ==
    /\ genPc # "ready" =>
          /\ canvasWidth = frameWidth * framesPerRow
          /\ canvasHeight = frameHeight * totalRows
          /\ canvasWidth = 192
          /\ canvasHeight = 384
    /\ \A i \in 1..Len(calls) :
          LET c   == calls[i]
              row == ClaimedRow(c.action, c.direction)
          IN  /\ c.x = frameWidth * c.frame
              /\ c.y = frameHeight * row
              /\ c.frame \in 0..(framesPerRow - 1)
              /\ row \in 0..(totalRows - 1)
              /\ c.x >= 0 /\ c.x + frameWidth <= canvasWidth
              /\ c.y >= 0 /\ c.y + frameHeight <= canvasHeight
    /\ Len(fills) = Len(calls)
    /\ \A i \in 1..Len(fills) :
          \A k \in 1..Len(fills[i]) :
             /\ Covers(Cell(calls[i].x, calls[i].y), fills[i][k])
             /\ Covers(Sheet, fills[i][k])
    /\ genPc = "done" =>
          \A a \in Actions, d \in Directions : CallsOf(a, d) # {}

\* the vertical offsets as the specification lists them, frame 0 first
ClaimedOffset ==
    [idle |-> <<0, -1, 0, -1>>,
     walk |-> <<0, -1, -1, 0, -1, -1>>,
     run  |-> <<0, -2, -2, 0, -2, -2>>]

\* C9: the offset passed to drawCharacter is, for idle, -1 on frames 1 and 3 and
\* 0 on frames 0 and 2; for walk, 0 on frames 0 and 3 and -1 on 1, 2, 4, 5; for
\* run, 0 on frames 0 and 3 and -2 on 1, 2, 4, 5; in every direction and in both
\* generators, and a finished generation has drawn every one of these frames.
C9_VerticalOffsets ==
    /\ \A i \in 1..Len(calls) :
          /\ calls[i].frame + 1 \in DOMAIN ClaimedOffset[calls[i].action]
          /\ calls[i].offsetY = ClaimedOffset[calls[i].action][calls[i].frame + 1]
    /\ genPc = "done" =>
          \A a \in Actions, d \in Directions :
             \A f \in 0..(Len(ClaimedOffset[a]) - 1) :
                \E i \in CallsOf(a, d) : calls[i].frame = f

\* GameScene.generateAllFrames has drawn run-up frame 4 two pixels up
C9_Witness ==
    /\ generator = "GameScene"
    /\ genPc = "done"
    /\ \E i \in CallsOf("run", "up") : calls[i].frame = 4 /\ calls[i].offsetY = -2
    /\ \E i \in CallsOf("idle", "left") : calls[i].frame = 3 /\ calls[i].offsetY = -1

-----------------------------------------------------------------------------
(* Properties of drawCharacter and calculateLegPositions (under DrawSpec) *)

Called == dcArgs # NoCall

\* the neutral stance: leftX -2, rightX 2, leftY 0, rightY 0
NeutralStance == LegPositions(-2, 2, 0, 0)

\* leg positions (in thousandths) equal a stance in pixels multiplied by
\* tx/10 on X and by ty/10 on Y
LegsAre(legs, stance, tx, ty) ==
    /\ legs.leftX * 10 = stance.leftX * 1000 * tx
    /\ legs.rightX * 10 = stance.rightX * 1000 * tx
    /\ legs.leftY * 10 = stance.leftY * 1000 * ty
    /\ legs.rightY * 10 = stance.rightY * 1000 * ty

\* what C11 expects of the entry at cycle index i for the action
LegsFollowEntry(i) ==
    CASE dcArgs.action = "idle" -> LegsAre(dcLegs[1], NeutralStance, 10, 10)
      [] dcArgs.action = "walk" -> LegsAre(dcLegs[1], walkCycle[i + 1], 10, 10)
      [] dcArgs.action = "run"  -> LegsAre(dcLegs[1], walkCycle[i + 1], 13, 15)

\* C11: for every non-negative frame f, walk gets the cycle entry at index
\* f mod 6, run that entry with X times 1.3 and Y times 1.5, idle the neutral
\* stance; frame 0 of walk is the neutral stance.
C11_LegCycleModSix ==
    (Called /\ dcArgs.frame >= 0) =>
        /\ LegsFollowEntry(dcArgs.frame % 6)
        /\ (dcArgs.action = "walk" /\ dcArgs.frame = 0) =>
               LegsAre(dcLegs[1], NeutralStance, 10, 10)

\* the drawing methods a list of fills came from, in order, each named once
RECURSIVE LayerOrder(_)
LayerOrder(rects) ==
    IF rects = <<>> THEN <<>>
    ELSE LET rest == LayerOrder(Tail(rects))
         IN  IF rest # <<>> /\ Head(rest) = Head(rects).layer THEN rest
             ELSE <<Head(rects).layer>> \o rest

FillsOf(method) == SelectSeq(ctx.rects, LAMBDA r : r.layer = method)

\* top of the head of the frame drawn: baseY - 26
HeadTopDrawn == dcArgs.y + 32 - 4 + dcArgs.offsetY - 26

\* C12: a frame is drawn back to front as legs, body, arms (side views only),
\* head, face, hair.  Arms are drawn exactly for left and right.  For up there is
\* no face and the back hair is drawn last and covers the whole head: each of
\* the fills of drawHead lies within the hair rectangle.  For down a two-eye
\* face and the front hair with its fringe; for left and right a one-eye face
\* and the side hair.  For idle the arm is drawn unswung on every frame.
C12_LayerOrder ==
    Called =>
        /\ (dcArgs.direction = "up") =>
               /\ LayerOrder(ctx.rects) = <<"drawLegs", "drawBody", "drawHead", "drawHairBack">>
               /\ ctx.rects[Len(ctx.rects)].layer = "drawHairBack"
               /\ LET hair == FillsOf("drawHairBack")[1]
                      head == FillsOf("drawHead")
                  IN  /\ hair.fill = colors.hair
                      /\ \A k \in 1..Len(head) : Covers(hair, head[k])
        /\ (dcArgs.direction = "down") =>
               /\ LayerOrder(ctx.rects) =
                      <<"drawLegs", "drawBody", "drawHead", "drawFace", "drawHairFront">>
               /\ Len(FillsOf("drawFace")) = 2
               /\ \A i \in 1..2 : /\ FillsOf("drawFace")[i].fill = colors.eyes
                                  /\ FillsOf("drawFace")[i].width = 1
                                  /\ FillsOf("drawFace")[i].height = 1
               /\ FillsOf("drawFace")[1].x # FillsOf("drawFace")[2].x
               \* the fringe: two locks of hair on the forehead rows
               /\ Cardinality({i \in 1..Len(FillsOf("drawHairFront")) :
                                  /\ FillsOf("drawHairFront")[i].y = HeadTopDrawn
                                  /\ FillsOf("drawHairFront")[i].fill = colors.hair}) = 2
        /\ (dcArgs.direction \in {"left", "right"}) =>
               /\ LayerOrder(ctx.rects) = <<"drawLegs", "drawBody", "drawArms", "drawHead",
                                            "drawFaceSide", "drawHairSide">>
               /\ Len(FillsOf("drawFaceSide")) = 1
               /\ FillsOf("drawFaceSide")[1].fill = colors.eyes
        /\ (FillsOf("drawArms") # <<>>) <=> (dcArgs.direction \in {"left", "right"})
        /\ (dcArgs.action = "idle" /\ dcArgs.direction \in {"left", "right"}) =>
               /\ FillsOf("drawArms")[1].y = dcArgs.y + 32 - 4 + dcArgs.offsetY - 16
               /\ FillsOf("drawArms")[2].y = dcArgs.y + 32 - 4 + dcArgs.offsetY - 16 + 5

-----------------------------------------------------------------------------
(* Determinism of the Frame Generator (under RedrawSpec) *)

-----------------------------------------------------------------------------
(* The frame index contract of drawCharacter (under DrawSpec) *)

\* the frame index of the last call lies outside [0, frameCount(action))
FrameOutOfRange ==
    /\ Called
    /\ ~(0 <= dcArgs.frame /\ dcArgs.frame < ClaimedFrameCount(dcArgs.action))

\* C14: a frame index outside [0, frameCount(action)) is a precondition
\* violation: the call fails with an error and draws nothing.
C14_OutOfRangeRejected ==
    FrameOutOfRange => (dcThrown /\ ctx.rects = <<>>)

-----------------------------------------------------------------------------
(* Properties of SpriteConfig (under ConfigSpec) *)

\* the in-memory state can be used: a configuration with its animations, and
\* a spritesheetData that is null or the stored data URL
Usable ==
    /\ hasAnimations(config)
    /\ config.animations \in Seq([action : STRING, direction : STRING, row : Int,
                                  startFrame : Int, frameCount : Int, frameRate : Int])
    /\ spritesheetData # Null => spritesheetData = localStorage.spritesheet_image

\* C16: when a localStorage call of a SpriteConfig operation throws, the
\* operation does not let the exception out, reports the failure by returning
\* false or null, and leaves config and spritesheetData usable.
C16_StorageFailuresNonFatal ==
    lastOp.storageThrew =>
        /\ ~lastOp.propagated
        /\ lastOp.result \in {"false", "null"}
        /\ Usable

\* C18: reset() restores the default configuration: right after it
\* config.animations is the original 12-entry default (rows 0..11, frameCount
\* 4/6/6, frameRate 4/8/12) and spritesheetData is null; and no operation ever
\* modifies the DEFAULT_ANIMATION_CONFIG table.
C18_ResetRestoresDefault ==
    /\ (lastOp.name = "reset" /\ ~lastOp.propagated) =>
           /\ config.animations = DEFAULT_ANIMATION_CONFIG
           /\ spritesheetData = Null
    /\ defaultConfig = DefaultConfigObject

-----------------------------------------------------------------------------
(* Properties of the editor (under EditorSpec) *)

\* C17: no two clips of config.animations have the same row, whatever
\* updateAnimation calls the editor made (handleAnimationChange,
\* saveConfiguration) from the default mapping.
C17_RowsUnique ==
    hasAnimations(config) =>
        \A i, j \in 1..Len(config.animations) :
            i # j => config.animations[i].row # config.animations[j].row

\* (C15 is checked under PreviewSpec, where the preview timer ticks.)
\* C15: a clip requested for a pair the clip table has no entry for is never
\* answered by silently doing nothing: the caller falls back to a default clip
\* or reports a configuration error.
C15_MissingClipHandled ==
    (lastRender.hadImage /\ lastRender.missing) =>
        \/ lastRender.outcome = "frame"
        \/ status = "error"

-----------------------------------------------------------------------------
(* The Player's clips against the default mapping and the sheet (under GenSpec) *)

\* sheet frame numbers of a registered clip
FramesOf(key) == anims[key].start .. anims[key].end

\* the cell of sheet frame n was drawn, as a pose of action and direction, by
\* the generation that ran
CellDrawn(n, action, direction) ==
    \E i \in 1..Len(calls) :
        /\ calls[i].x = (n % 6) * 32
        /\ calls[i].y = (n \div 6) * 32
        /\ calls[i].action = action
        /\ calls[i].direction = direction

\* C19: for each of the 12 pairs the Player clip <action>-<direction> spans the
\* sheet frames row * 6 + startFrame .. row * 6 + startFrame + frameCount - 1
\* and plays at the frameRate of the pair's DEFAULT_ANIMATION_CONFIG entry; the
\* 12 ranges are pairwise disjoint, each lies within one sheet row, and each
\* covers only cells the generator draws.
C19_ClipsMatchSheet ==
    /\ DOMAIN anims = {ClipName[a][d] : a \in Actions, d \in Directions}
    /\ Len(DEFAULT_ANIMATION_CONFIG) = 12
    /\ \A i \in 1..Len(DEFAULT_ANIMATION_CONFIG) :
          LET c == DEFAULT_ANIMATION_CONFIG[i]
              key == ClipName[c.action][c.direction]
          IN  /\ anims[key].start = c.row * 6 + c.startFrame
              /\ anims[key].end = c.row * 6 + c.startFrame + c.frameCount - 1
              /\ anims[key].frameRate = c.frameRate
              /\ \A n \in FramesOf(key) : n \div 6 = c.row
              /\ genPc = "done" =>
                    \A n \in FramesOf(key) : CellDrawn(n, c.action, c.direction)
    /\ \A k1, k2 \in DOMAIN anims : k1 # k2 => FramesOf(k1) \cap FramesOf(k2) = {}

\* a generation has finished and the last frame of run-up, 71, has its cell
C19_Witness ==
    /\ genPc = "done"
    /\ anims["run-up"].end = 71
    /\ CellDrawn(71, "run", "up")

-----------------------------------------------------------------------------
(* The playing clip against the stored pair (under Spec) *)

\* C20: in every state reachable from the constructed Player by update ticks
\* the key last passed to sprite.play is '<currentState>-<currentDirection>';
\* initially the key is 'idle-down' and the pair is (idle, down).
C20_PlayingClipMatchesPair ==
    /\ currentAnim = ClipName[currentState][currentDirection]
    /\ played # <<>> => played[Len(played)] = currentAnim

\* a tick switched the clip to run-left, and the tick after it kept the pair
\* and played nothing
C20_Witness ==
    /\ Ticked
    /\ played = <<>>
    /\ currentState = "run"
    /\ currentDirection = "left"
    /\ fromState = "run"
    /\ fromDirection = "left"

-----------------------------------------------------------------------------
(* The keys the selector plays against the registry (under Spec) *)

\* the twelve keys Player.createAnimations registers, written out
TwelveKeys ==
    {"idle-down", "idle-left", "idle-right", "idle-up",
     "walk-down", "walk-left", "walk-right", "walk-up",
     "run-down", "run-left", "run-right", "run-up"}

\* C21: every key passed to sprite.play, by the constructor or by a tick under
\* any of the 32 inputs, is one of the 12 keys createAnimations registered.
C21_PlayedKeysRegistered ==
    /\ DOMAIN anims = TwelveKeys
    /\ \A i \in 1..Len(played) : played[i] \in DOMAIN anims
    /\ currentAnim \in DOMAIN anims

\* a tick with up and the running modifier switched the clip to run-up
C21_Witness ==
    /\ Ticked
    /\ input.up /\ input.isRunning /\ ~input.left /\ ~input.right
    /\ played = <<"run-up">>
    /\ "run-up" \in DOMAIN anims

-----------------------------------------------------------------------------
(* The velocity against the animation state (under Spec) *)

\* the velocity is zero on both axes
VelocityZero == velocity.x = 0 /\ velocity.y = 0

\* the facing direction matches the velocity's sign on its axis
FacingMatchesVelocity ==
    /\ currentDirection = "left"  => velocity.x < 0
    /\ currentDirection = "right" => velocity.x > 0
    /\ currentDirection = "up"    => velocity.y < 0 /\ velocity.x = 0
    /\ currentDirection = "down"  => velocity.y > 0 /\ velocity.x = 0

\* opposite keys held together: left beats right and up beats down, in the
\* velocity and in the facing direction alike
OppositeKeysAgree ==
    /\ input.left /\ input.right => velocity.x < 0 /\ currentDirection = "left"
    /\ input.up /\ input.down /\ ~input.left /\ ~input.right =>
           velocity.y < 0 /\ velocity.x = 0 /\ currentDirection = "up"

\* C22 as stated: after every tick the velocity is zero exactly when the state
\* is idle, the speed of the velocity is runSpeed exactly when the state is
\* run, and the facing direction matches the velocity's sign on its axis.
C22_VelocityAgreesAlways ==
    Ticked =>
        /\ VelocityZero <=> currentState = "idle"
        /\ velocity.length = runSpeed <=> currentState = "run"
        /\ FacingMatchesVelocity
        /\ OppositeKeysAgree

\* C22: after every tick the velocity is zero exactly when the state is idle,
\* its speed is runSpeed exactly when the state is run and walkSpeed exactly
\* when it is walk; while the state is walk or run the facing direction
\* matches the velocity's sign on its axis (left beats right, up beats down);
\* while idle the velocity is zero and the facing direction is the one kept
\* from before the tick.
C22_VelocityAgreesWhileMoving ==
    Ticked =>
        /\ VelocityZero <=> currentState = "idle"
        /\ velocity.length = runSpeed <=> currentState = "run"
        /\ velocity.length = walkSpeed <=> currentState = "walk"
        /\ currentState # "idle" => FacingMatchesVelocity
        /\ currentState = "idle" => currentDirection = fromDirection
        /\ OppositeKeysAgree

\* a tick with all four direction keys and the running modifier: the player
\* runs left and up at runSpeed, facing left
C22_Witness ==
    /\ Ticked
    /\ input.left /\ input.right /\ input.up /\ input.down /\ input.isRunning
    /\ currentState = "run"
    /\ currentDirection = "left"
    /\ velocity = [x |-> -1, y |-> -1, length |-> runSpeed]

-----------------------------------------------------------------------------
(* The isMoving attribute against the state (under Spec) *)

\* C23: after every tick Player.isMoving is true exactly when a direction flag
\* was set on that tick, that is exactly when currentState is walk or run, and
\* false exactly when currentState is idle.
C23_IsMovingDerived ==
    Ticked =>
        /\ isMoving <=> AnyFlag
        /\ isMoving <=> currentState \in {"walk", "run"}
        /\ ~isMoving <=> currentState = "idle"

-----------------------------------------------------------------------------
(* The two sheet generators against each other (under GenSpec) *)

\* number of calls so far that draw a pose of action
CallsFor(action) == Cardinality({i \in 1..Len(calls) : calls[i].action = action})

\* the running generation has so far repeated, call for call, the sheet that
\* was finished before it
RepeatsFinishedSheet ==
    /\ Len(calls) <= Len(sheetCalls)
    /\ \A i \in 1..Len(calls) : calls[i] = sheetCalls[i]

\* C24: generateSpritesheet and generateAllFrames issue the same sequence of
\* 64 drawCharacter calls (16 idle, 24 walk, 24 run): the same cell origin,
\* direction, action, frame index and vertical offset, in the same order.
C24_GeneratorsEquivalent ==
    /\ sheetGenerator # "none" => RepeatsFinishedSheet
    /\ genPc = "done" =>
          /\ Len(calls) = 64
          /\ CallsFor("idle") = 16
          /\ CallsFor("walk") = 24
          /\ CallsFor("run") = 24

\* GameScene has finished a sheet after SpriteGenerator finished one
C24_Witness ==
    /\ genPc = "done"
    /\ generator = "GameScene"
    /\ sheetGenerator = "SpriteGenerator"
    /\ Len(sheetCalls) = 64
    /\ calls = sheetCalls

-----------------------------------------------------------------------------
(* The frame the preview draws against the clip's frame count (under PreviewSpec) *)

\* the last renderPreviewFrame drew a frame of a clip of at least one frame
DrewFrame ==
    /\ lastRender.outcome = "frame"
    /\ lastRender.frameCount # NaN
    /\ lastRender.frameCount >= 1

\* C25: whenever renderPreviewFrame draws a frame (image loaded, clip present,
\* frameCount >= 1) the index it draws is in [0, frameCount) of the clip as
\* configured at that tick, whatever timer ticks, frameCount edits and button
\* clicks came before; and a step that selects another preview action or
\* direction leaves previewFrame at 0.
C25_PreviewFrameInRange ==
    /\ [](DrewFrame =>
            /\ lastRender.frameAfter # NaN
            /\ 0 <= lastRender.frameAfter
            /\ lastRender.frameAfter < lastRender.frameCount)
    /\ [][(previewAction' # previewAction \/ previewDirection' # previewDirection)
              => previewFrame' = 0]_vars

-----------------------------------------------------------------------------
(* The preview timer (under EditorSpec) *)

\* C26: at every moment after SpriteEditor.init exactly one preview interval
\* timer is active: it is the one previewInterval names, every timer started
\* before it has been cleared, and its period is 1000 / previewFps for the
\* latest previewFps.
C26_OnePreviewTimer ==
    /\ Cardinality(timers) = 1
    /\ previewInterval # Null
    /\ \A t \in timers : /\ t.id = previewInterval[1]
                         /\ t.id = nextTimerId - 1
                         /\ t.delay = <<1000, previewFps>>

-----------------------------------------------------------------------------
(* The effect of updateAnimation on the clip table (under ConfigSpec) *)

\* the attributes of a clip that updates may name
ClipAttributes == {"row", "startFrame", "frameCount", "frameRate"}

\* no two entries of the table have the same (action, direction)
OneEntryPerPair(animations) ==
    \A i, j \in 1..Len(animations) :
        (/\ animations[i].action = animations[j].action
         /\ animations[i].direction = animations[j].direction) => i = j

\* entry new is entry old with the fields updates names set to its values
Overridden(old, new, updates) ==
    /\ new.action = old.action
    /\ new.direction = old.direction
    /\ \A f \in ClipAttributes :
          new[f] = IF f \in DOMAIN updates THEN updates[f] ELSE old[f]

\* what a call updateAnimation(action, direction, updates) is to do to the
\* table old, leaving new
UpdateEffect(old, new, action, direction, updates) ==
    LET hits == {i \in 1..Len(old) :
                    old[i].action = action /\ old[i].direction = direction}
    IN  /\ IF hits # {}
           THEN /\ Len(new) = Len(old)
                /\ \A i \in 1..Len(old) :
                      IF i \in hits THEN Overridden(old[i], new[i], updates)
                      ELSE new[i] = old[i]
           ELSE /\ Len(new) = Len(old) + 1
                /\ \A i \in 1..Len(old) : new[i] = old[i]
                /\ Overridden([action |-> action, direction |-> direction, row |-> 0,
                               startFrame |-> 0, frameCount |-> 4, frameRate |-> 8],
                              new[Len(new)], updates)
        /\ \E i \in 1..Len(new) :
              /\ new[i].action = action /\ new[i].direction = direction
              /\ \A h \in 1..(i - 1) :
                    ~(new[h].action = action /\ new[h].direction = direction)
              /\ \A f \in DOMAIN updates : new[i][f] = updates[f]

\* C27: the table of a configuration that has one holds at most one entry per
\* (action, direction) after any sequence of updateAnimation calls; a call on an existing pair changes only
\* the fields updates names, on that entry; a call on an absent pair appends
\* one entry with row 0, startFrame 0, frameCount 4, frameRate 8 overridden by
\* updates; every other entry is unchanged and getAnimation of the pair then
\* finds an entry carrying the given values.
C27_UpdateAnimationFrame ==
    /\ [](hasAnimations(config) => OneEntryPerPair(config.animations))
    /\ [][(lastOp'.name = "updateAnimation" /\ hasAnimations(config)) =>
             UpdateEffect(config.animations, config'.animations, lastOp'.action,
                          lastOp'.direction, lastOp'.updates)]_vars

\* updateAnimation('attack', 'down', {frameCount: 8}) on the default table
\* appended the thirteenth entry, and idle-down then took the row NaN of an
\* input left empty
C27_Witness ==
    /\ hasAnimations(config)
    /\ lastOp.name = "updateAnimation"
    /\ lastOp.action = "idle"
    /\ lastOp.updates = [row |-> NaN]
    /\ Len(config.animations) = 13
    /\ config.animations[13] = Clip("attack", "down", 0, 0, 8, 8)
    /\ config.animations[1] = Clip("idle", "down", NaN, 0, 4, 4)

-----------------------------------------------------------------------------
(* importJSON and exportJSON (under ConfigSpec) *)

\* C28: importJSON of a text that is not valid JSON returns false and leaves
\* the in-memory and the stored configuration unchanged; of valid JSON it
\* makes the parsed value the in-memory configuration, persists it and
\* returns true; and importJSON(exportJSON()) leaves the configuration equal
\* to what it was.
C28_ImportJSON ==
    [][lastOp'.name = "importJSON" =>
          LET text == lastOp'.jsonString
          IN  /\ text.json = <<>> =>
                    /\ lastOp'.result = "false"
                    /\ config' = config
                    /\ localStorage' = localStorage
              /\ text.json # <<>> =>
                    /\ lastOp'.result = "true"
                    /\ config' = text.json[1]
                    /\ localStorage'.spritesheet_config # Null
                    /\ parse(localStorage'.spritesheet_config[1]).value = <<config'>>
              /\ text = exportJSON(config) => config' = config]_vars

-----------------------------------------------------------------------------
(* saveConfiguration with and without an image (under EditorSpec) *)

\* the stored configuration is the text of the configuration in memory
ConfigStored == localStorage.spritesheet_config = <<stringify(config)>>

\* C29: saveConfiguration with no image loaded reports an error status and
\* changes nothing, neither config.animations nor the storage; with an image
\* loaded it writes the configuration and reports success exactly when
\* saveConfig returned true, and an error status otherwise.
C29_SaveConfiguration ==
    [][saveClicked' =>
          IF ~image
          THEN /\ status' = "error"
               /\ ~image'
               /\ config' = config
               /\ localStorage' = localStorage
               /\ lastOp' = lastOp
          ELSE /\ lastOp'.name = "saveConfig"
               /\ \/ /\ lastOp'.result = "true"
                     /\ status' = "success"
                     /\ ConfigStored'
                  \/ /\ lastOp'.result = "false"
                     /\ status' = "error"
                     /\ lastOp'.storageThrew
                     /\ localStorage' = localStorage]_vars

\* Save was clicked with an image loaded and 64 typed as the frame width:
\* saveConfig returned true, the success status is up and the configuration
\* with that width is the one stored
C29_Witness ==
    /\ saveClicked
    /\ image
    /\ ~hung
    /\ lastOp = Op("saveConfig", "true", FALSE, FALSE)
    /\ status = "success"
    /\ hasAnimations(config)
    /\ config.frameWidth = 64
    /\ ConfigStored

-----------------------------------------------------------------------------
(* The animation registry across scene reloads (under ReloadSpec) *)

\* C30: however many Players were constructed on the scene, the registry holds
\* exactly the 12 keys, scene.anims.create ran exactly once for each, and each
\* key has the frame range and frame rate of its first registration.
C30_RegistrationIdempotent ==
    /\ DOMAIN anims = TwelveKeys
    /\ Len(created) = 12
    /\ \A k \in TwelveKeys : Cardinality({i \in 1..Len(created) : created[i] = k}) = 1
    /\ \A i \in 1..Len(createAnimations) :
          LET a == createAnimations[i]
          IN  anims[a.key] = [start |-> a.start, end |-> a.end, frameRate |-> a.frameRate]

\* the third Player of the scene has been ticked into run-left
C30_Witness ==
    /\ players = 3
    /\ Ticked
    /\ currentAnim = "run-left"
    /\ Len(created) = 12

====
